---- MODULE Spec2Model ----
(***************************************************************************)
(* A model of the GenericLoader of esbuild-generic-loader (src/src/loader.ts)*)
(* together with the example HtmlLoader policy                             *)
(* (src/examples/1_html/loader.ts).                                        *)
(*                                                                         *)
(* A javascript string is modelled as a sequence of atoms.  An atom is     *)
(* either one character ("a", "$", "\\", ...) or one of the fixed words    *)
(* that the templates of loader.ts emit and that its regular expressions   *)
(* look for ("globalThis.start_of_imports()", "await", "import(", ...).    *)
(* The string denoted by a sequence is the concatenation of its atoms; the *)
(* single-character atoms used for contents, keys and paths cannot spell   *)
(* any of the words, so matching on atoms is matching on characters.       *)
(***************************************************************************)
EXTENDS Integers, Sequences, FiniteSets, TLC

VARIABLES
    metaEnabled,   \* this.config.meta
    metaImports,   \* this.meta.imports: sequence of [key, in, out]
    pc,            \* position in the lifecycle of the instance
    raw,           \* raw_content passed to parseToJs
    deps,          \* what extractDeps returned: [content, importKeys, importPaths]
    js,            \* the string parseToJs returned
    opts,          \* what the external bundler did to js
    bundled,       \* the string passed to unparseFromJs
    residual,      \* js_content_without_imports
    recovered,     \* importPaths collected by the regular expressions
    evaluated,     \* what the dynamic import of the residual script gave
    handed,        \* the dependency set handed to insertDeps (<<>> when not called)
    outcome,       \* how unparseFromJs ended
    result,        \* the string unparseFromJs resolved with
    liveBlobUrls,  \* the object URLs created by URL.createObjectURL and not revoked
    calls,         \* the parseToJs calls made on one instance that is used repeatedly
    started,       \* the calls in the order in which parseToJs was invoked
    completed,     \* the calls in the order in which parseToJs returned
    fsCall,        \* the call made to createFiles or writeOutputFiles: [fn, files, config]
    fsPc,          \* the state of the promise that call returned
    virtual_files, \* the tuples createFiles received
    config,        \* the configuration createFiles received
    filePc,        \* per file, the position of its callback in createFiles
    console,       \* the messages given to console_log, in order
    fsOps,         \* the filesystem functions invoked, in order
    zipPc,         \* position of a call of zipArrays or of a zipped mapper
    zipArgs,       \* the arrays the call received
    zipMapped,     \* whether the call is made through zipArraysMapperFactory(map_fn)
    zipMinLen,     \* min_len of the call
    zipI,          \* the loop counter i
    zipOutput,     \* the array output
    zipTurn,       \* the parity of the iterations made beyond MaxIterations
    platform,      \* the runtime and the operating system under ensureDir and ensureFile
    disk,          \* the directory entries of the filesystem
    diskBefore,    \* the directory entries when the call in hand was made
    ensureCall,    \* the call of ensureDir or ensureFile in hand: [fn, path]
    ensurePc,      \* the position of that call
    ensureTarget,  \* the directory the pending mkdir is for
    ensureOps,     \* the filesystem functions that call has awaited: [fn, path, error, fault]
    ensureRaised,  \* the error the last failed filesystem function raised
    ensureThrown,  \* the error the call rejected with
    ensureHistory  \* the calls that settled before the one in hand: [fn, path, pc]

vars == <<metaEnabled, metaImports, pc, raw, deps, js, opts, bundled,
          residual, recovered, evaluated, handed, outcome, result, liveBlobUrls,
          calls, started, completed,
          fsCall, fsPc, virtual_files, config, filePc, console, fsOps,
          zipPc, zipArgs, zipMapped, zipMinLen, zipI, zipOutput, zipTurn,
          platform, disk, diskBefore, ensureCall, ensurePc, ensureTarget, ensureOps,
          ensureRaised, ensureThrown, ensureHistory>>

\* the variables of the life of a single-use instance
cycleVars == <<pc, raw, deps, js, opts, bundled, residual, recovered, evaluated,
               handed, outcome, result>>

\* the variables of an instance that is used for several calls
callVars == <<calls, started, completed>>

\* the variables of the filesystem utilities of src/src/fs.ts
fsVars == <<fsCall, fsPc, virtual_files, config, filePc, console, fsOps>>

\* the variables of a call of zipArrays or of a zipped mapper, src/src/funcdefs.ts
zipVars == <<zipPc, zipArgs, zipMapped, zipMinLen, zipI, zipOutput, zipTurn>>

\* the variables of ensureDir and ensureFile, src/src/fs.ts
ensureVars == <<platform, disk, diskBefore, ensureCall, ensurePc, ensureTarget,
                ensureOps, ensureRaised, ensureThrown, ensureHistory>>

---------------------------------------------------------------------------
(* bounds of the model *)

\* number of pieces (single characters or whole src="..." references) of a raw content
MaxPieces == 2

\* number of files given to one createFiles or writeOutputFiles call
MaxFiles == 2

\* number of atoms of a document that spells marker strings and import calls
MaxScriptLength == 24

\* number of ensureDir and ensureFile calls made one after the other
MaxEnsureCalls == 2

\* number of arrays given to one zipArrays call, and the length of each
MaxArrays == 2
MaxLen == 2

\* number of iterations of the loop of zipArrays whose counter and output are
\* tracked; a loop that goes beyond is followed without them
MaxIterations == 3

---------------------------------------------------------------------------
(* debugging flags, src/src/deps.ts *)

DEBUG_META == 1
DEBUG_ASSERT == 1

---------------------------------------------------------------------------
(* generic helpers on sequences *)

Min(a, b) == IF a <= b THEN a ELSE b

\* the first index j >= i with s[j] = a; 0 when there is none
RECURSIVE IndexFrom(_, _, _)
IndexFrom(s, a, i) ==
    IF i > Len(s) THEN 0
    ELSE IF s[i] = a THEN i
    ELSE IndexFrom(s, a, i + 1)

\* the first index j >= i with s[j] \notin S; Len(s) + 1 when there is none
RECURSIVE SkipWhile(_, _, _)
SkipWhile(s, S, i) ==
    IF i > Len(s) THEN Len(s) + 1
    ELSE IF s[i] \in S THEN SkipWhile(s, S, i + 1)
    ELSE i

\* concatenation of a sequence of sequences: Array.prototype.join("")
RECURSIVE Join(_)
Join(ss) == IF ss = <<>> THEN <<>> ELSE Head(ss) \o Join(Tail(ss))

\* whether sub occurs in s at index i
OccursAt(s, sub, i) ==
    /\ i + Len(sub) - 1 <= Len(s)
    /\ \A k \in 1..Len(sub) : s[i + k - 1] = sub[k]

\* the atom of the grave accent U+0060, the delimiter of a template literal
backtick == "BACKTICK"

\* what the regular expression classes \s and . (without the s flag) accept
WhiteSpace == {" ", "\n", "\r", "\t"}
LineTerminators == {"\n", "\r"}

---------------------------------------------------------------------------
(* src/src/funcdefs.ts *)

\* Math.min(...numbers): [finite, n]; Math.min() with no argument is Infinity
Infinity == [finite |-> FALSE, n |-> 0]

math_min(numbers) ==
    IF numbers = <<>> THEN Infinity
    ELSE [finite |-> TRUE,
          n |-> CHOOSE n \in {numbers[k] : k \in 1..Len(numbers)} :
                    \A k \in 1..Len(numbers) : n <= numbers[k]]

\* i < min_len
LessThan(i, min_len) == ~min_len.finite \/ i < min_len.n

\* arrays.map((arr) => (arr.length))
Lengths(arrays) == [k \in 1..Len(arrays) |-> Len(arrays[k])]

\* arrays.map((arr) => arr[i]) for the index i of javascript, which counts from 0
TupleAt(arrays, i) == [k \in 1..Len(arrays) |-> arrays[k][i + 1]]

\* the map_fn given to zipArraysMapperFactory: here one that keeps both arguments
map_fn(tuple, index) == [tuple |-> tuple, index |-> index]

\* zipArrays(...arrays) when its loop ends: tuples of the i-th elements, as many as
\* the shortest array has.  With no array min_len is Infinity and the loop does not
\* end (ZipLoop below); the loader calls zipArrays with two or three arrays
zipArrays(arrays) ==
    LET min_len == math_min(Lengths(arrays))
    IN [i \in 1..min_len.n |-> TupleAt(arrays, i - 1)]

---------------------------------------------------------------------------
(* JSON.stringify and the string literals of javascript *)

\* JSON.stringify of one character of a string
JsonEscapeAtom(a) ==
    CASE a = "\"" -> <<"\\", "\"">>
      [] a = "\\" -> <<"\\", "\\">>
      [] a = "\n" -> <<"\\", "n">>
      [] a = "\r" -> <<"\\", "r">>
      [] a = "\t" -> <<"\\", "t">>
      [] OTHER -> <<a>>

\* json_stringify(str) for a string
json_stringify(str) ==
    <<"\"">> \o Join([i \in 1..Len(str) |-> JsonEscapeAtom(str[i])]) \o <<"\"">>

---------------------------------------------------------------------------
(* the constants of src/src/loader.ts *)

imports_beginning_marker == "globalThis.start_of_imports()"
imports_ending_marker == "globalThis.end_of_imports()"
import_keys_declaration == "export const importKeys = []"
content_export_head == "export const content = String.raw"

\* the escape of an earlier version, which leaves the closing script tag alone
escape_regex_without_script_tag(a) == a \in {"$", backtick}

\* escape_regex_for_string_raw: one match is a dollar sign, a backtick or the closing script tag
escape_regex_for_string_raw(a) == a \in {"$", backtick, "</script>"}

\* a template that emits the import before the key push
deps_list_to_js_fn_map_swapped(import_key, import_path) ==
    <<"\n", "await", " ", "import(">> \o json_stringify(import_path) \o <<")">>
    \o <<"\n", "importKeys.push(">> \o json_stringify(import_key) \o <<")">>

\* the text one dependency contributes to the wrapped script
deps_list_to_js_fn_map(import_key, import_path) ==
    <<"\n", "importKeys.push(">> \o json_stringify(import_key) \o <<")">>
    \o <<"\n", "await", " ", "import(">> \o json_stringify(import_path) \o <<")">>

\* a mapper that walks the keys and takes the path at the same index when there is one
deps_list_to_js_fn_per_key(importKeys, importPaths) ==
    [i \in 1..Len(importKeys) |->
        deps_list_to_js_fn_map(importKeys[i],
                               IF i <= Len(importPaths) THEN importPaths[i] ELSE <<>>)]

\* deps_list_to_js_fn(importKeys, importPaths): one text per zipped pair
deps_list_to_js_fn(importKeys, importPaths) ==
    LET zipped == zipArrays(<<importKeys, importPaths>>)
    IN [i \in 1..Len(zipped) |-> deps_list_to_js_fn_map(zipped[i][1], zipped[i][2])]

\* content.replaceAll(escape_regex_for_string_raw, "${\"$&\"}") and the String.raw wrapper
contentExportJs(content) ==
    LET escaped == Join([i \in 1..Len(content) |->
                        IF escape_regex_for_string_raw(content[i])
                        THEN <<"$", "{", "\"", content[i], "\"", "}">>
                        ELSE <<content[i]>>])
    IN <<content_export_head, backtick>> \o escaped \o <<backtick, "\n">>

\* the template string parseToJs returns
WrappedScript(d) ==
    <<"\n", import_keys_declaration, "\n", imports_beginning_marker, "\n">>
    \o Join(deps_list_to_js_fn(d.importKeys, d.importPaths))
    \o <<"\n", imports_ending_marker, "\n">>
    \o contentExportJs(d.content)

\* the entries parseToJs pushes to this.meta.imports
NewMetaEntries(d) ==
    LET zipped == zipArrays(<<d.importKeys, d.importPaths>>)
    IN [i \in 1..Len(zipped) |-> [key |-> zipped[i][1], in |-> zipped[i][2], out |-> <<>>]]

\* a push that replaces the entries of the instance by those of this call
PushMetaEntriesReplacing(meta_imports, d) ==
    IF DEBUG_META = 1 THEN NewMetaEntries(d) ELSE meta_imports

\* an unshift in place of the push: the entries of this call go to the front
PushMetaEntriesPrepending(meta_imports, d) ==
    IF DEBUG_META = 1 THEN NewMetaEntries(d) \o meta_imports ELSE meta_imports

\* this.meta.imports after the if (DEBUG.META) block of parseToJs
PushMetaEntries(meta_imports, d) ==
    IF DEBUG_META = 1 THEN meta_imports \o NewMetaEntries(d) ELSE meta_imports

---------------------------------------------------------------------------
(* the example policy, src/examples/1_html/loader.ts *)

\* template_key_wrapper_fn(key) = "\\\{" + key + "\\\}"
template_key_wrapper_fn(key) == <<"\\", "{">> \o key \o <<"\\", "}">>

\* one match of html_src_regex = /src\s*\=\s*\"(?<link>.*?)\"/g starting at index i:
\* [ok, link, last]
HtmlSrcMatch(s, i) ==
    LET e == SkipWhile(s, WhiteSpace, i + 1)
        q == SkipWhile(s, WhiteSpace, e + 1)
        c == IndexFrom(s, "\"", q + 1)
    IN IF /\ i <= Len(s) /\ s[i] = "src"
          /\ e <= Len(s) /\ s[e] = "="
          /\ q <= Len(s) /\ s[q] = "\""
          /\ c # 0
          /\ \A k \in (q + 1)..(c - 1) : s[k] \notin LineTerminators
       THEN [ok |-> TRUE, link |-> SubSeq(s, q + 1, c - 1), last |-> c]
       ELSE [ok |-> FALSE, link |-> <<>>, last |-> i]

\* HtmlLoader.extractDeps(content); ids are the values crypto.randomUUID() returns, in order
RECURSIVE ExtractScan(_, _, _, _)
ExtractScan(s, i, ids, acc) ==
    IF i > Len(s) THEN acc
    ELSE LET m == HtmlSrcMatch(s, i)
             n == Len(acc.importKeys) + 1
         IN IF m.ok
            THEN ExtractScan(s, m.last + 1, ids,
                    [content |-> acc.content \o <<"src", "=", "\"">>
                                 \o template_key_wrapper_fn(<<ids[n]>>) \o <<"\"">>,
                     importKeys |-> Append(acc.importKeys, <<ids[n]>>),
                     importPaths |-> Append(acc.importPaths, m.link)])
            ELSE ExtractScan(s, i + 1, ids, [acc EXCEPT !.content = Append(@, s[i])])

extractDeps(content, ids) ==
    ExtractScan(content, 1, ids, [content |-> <<>>, importKeys |-> <<>>, importPaths |-> <<>>])

\* the number of matches of html_src_regex in content
RECURSIVE CountSrc(_, _)
CountSrc(s, i) ==
    IF i > Len(s) THEN 0
    ELSE LET m == HtmlSrcMatch(s, i)
         IN IF m.ok THEN 1 + CountSrc(s, m.last + 1) ELSE CountSrc(s, i + 1)

\* the replacement patterns String.prototype.replaceAll expands in a replacement
\* string: a doubled dollar sign is one dollar sign, dollar-ampersand is the match
RECURSIVE ExpandReplacement(_, _)
ExpandReplacement(repl, matched) ==
    IF repl = <<>> THEN <<>>
    ELSE IF (Head(repl) = "$" /\ Len(repl) >= 2 /\ repl[2] \in {"$", "&"})
    THEN (IF repl[2] = "$" THEN <<"$">> ELSE matched)
         \o ExpandReplacement(SubSeq(repl, 3, Len(repl)), matched)
    ELSE <<Head(repl)>> \o ExpandReplacement(Tail(repl), matched)

\* str.replaceAll(pattern, replacement) for a string pattern
RECURSIVE ReplaceAllFrom(_, _, _, _)
ReplaceAllFrom(s, i, pat, repl) ==
    IF i > Len(s) THEN <<>>
    ELSE IF OccursAt(s, pat, i)
    THEN ExpandReplacement(repl, pat) \o ReplaceAllFrom(s, i + Len(pat), pat, repl)
    ELSE <<s[i]>> \o ReplaceAllFrom(s, i + 1, pat, repl)

\* HtmlLoader.insertDeps(dependencies)
RECURSIVE InsertFrom(_, _, _)
InsertFrom(content, zipped, i) ==
    IF i > Len(zipped) THEN content
    ELSE InsertFrom(ReplaceAllFrom(content, 1, template_key_wrapper_fn(zipped[i][1]), zipped[i][2]),
                    zipped, i + 1)

insertDeps(dependencies) ==
    InsertFrom(dependencies.content,
               zipArrays(<<dependencies.importKeys, dependencies.importPaths>>), 1)

---------------------------------------------------------------------------
(* the two regular expressions of unparseFromJs, src/src/loader.ts *)

\* one match of import_statement_regex starting at index i: [ok, importPath, last]
\*   await  \s+  import(  \s*  "  (?<importPath>.*?)  "  \s*  )  [,;]*
\* the lazy group ends at the first double quote that optional white space and a
\* closing parenthesis follow; without the s flag the dot accepts no line terminator
RECURSIVE ImportPathEnd(_, _)
ImportPathEnd(t, q) ==
    IF q > Len(t) THEN 0
    ELSE IF (t[q] = "\"" /\ SkipWhile(t, WhiteSpace, q + 1) <= Len(t)
             /\ t[SkipWhile(t, WhiteSpace, q + 1)] = ")")
    THEN q
    ELSE IF t[q] \in LineTerminators THEN 0
    ELSE ImportPathEnd(t, q + 1)

\* the text of a string literal read as javascript reads it: a backslash stands
\* for the character after it
RECURSIVE LiteralValue(_)
LiteralValue(t) ==
    IF t = <<>> THEN <<>>
    ELSE IF Head(t) = "\\" /\ Len(t) >= 2
    THEN <<t[2]>> \o LiteralValue(SubSeq(t, 3, Len(t)))
    ELSE <<Head(t)>> \o LiteralValue(Tail(t))

\* a match whose path group is passed through the parsing of the string literal
import_statement_regex_unescaping(t, i) ==
    LET w == SkipWhile(t, WhiteSpace, i + 1)
        o == SkipWhile(t, WhiteSpace, w + 1)
        q == ImportPathEnd(t, o + 1)
        c == SkipWhile(t, WhiteSpace, q + 1)
    IN IF /\ i <= Len(t) /\ t[i] = "await"
          /\ w > i + 1
          /\ w <= Len(t) /\ t[w] = "import("
          /\ o <= Len(t) /\ t[o] = "\""
          /\ q # 0
       THEN [ok |-> TRUE, importPath |-> LiteralValue(SubSeq(t, o + 1, q - 1)),
             last |-> SkipWhile(t, {",", ";"}, c + 1) - 1]
       ELSE [ok |-> FALSE, importPath |-> <<>>, last |-> i]

import_statement_regex(t, i) ==
    LET w == SkipWhile(t, WhiteSpace, i + 1)
        o == SkipWhile(t, WhiteSpace, w + 1)
        q == ImportPathEnd(t, o + 1)
        c == SkipWhile(t, WhiteSpace, q + 1)
    IN IF /\ i <= Len(t) /\ t[i] = "await"
          /\ w > i + 1
          /\ w <= Len(t) /\ t[w] = "import("
          /\ o <= Len(t) /\ t[o] = "\""
          /\ q # 0
       THEN [ok |-> TRUE, importPath |-> SubSeq(t, o + 1, q - 1),
             last |-> SkipWhile(t, {",", ";"}, c + 1) - 1]
       ELSE [ok |-> FALSE, importPath |-> <<>>, last |-> i]

\* a replaceAll whose callback puts each path at the front of the list
RECURSIVE StripImportsPrepending(_, _, _)
StripImportsPrepending(t, i, acc) ==
    IF i > Len(t) THEN acc
    ELSE LET m == import_statement_regex(t, i)
         IN IF m.ok
            THEN StripImportsPrepending(t, m.last + 1,
                                        [acc EXCEPT !.paths = <<m.importPath>> \o @])
            ELSE StripImportsPrepending(t, i + 1, [acc EXCEPT !.out = Append(@, t[i])])

\* a replaceAll whose callback records the path and gives the match back as its
\* replacement
RECURSIVE StripImportsKeepingCall(_, _, _)
StripImportsKeepingCall(t, i, acc) ==
    IF i > Len(t) THEN acc
    ELSE LET m == import_statement_regex(t, i)
         IN IF m.ok
            THEN StripImportsKeepingCall(t, m.last + 1,
                     [acc EXCEPT !.paths = Append(@, m.importPath),
                                 !.out = @ \o SubSeq(t, i, m.last)])
            ELSE StripImportsKeepingCall(t, i + 1, [acc EXCEPT !.out = Append(@, t[i])])

\* marked_import_statements.replaceAll(import_statement_regex, ...): [out, paths]
RECURSIVE StripImports(_, _, _)
StripImports(t, i, acc) ==
    IF i > Len(t) THEN acc
    ELSE LET m == import_statement_regex(t, i)
         IN IF m.ok
            THEN StripImports(t, m.last + 1, [acc EXCEPT !.paths = Append(@, m.importPath)])
            ELSE StripImports(t, i + 1, [acc EXCEPT !.out = Append(@, t[i])])

\* a block expression without the [,;]* after the begin marker
import_statements_block_regex_strict(s, i) ==
    LET e == IndexFrom(s, imports_ending_marker, i + 1)
    IN IF i <= Len(s) /\ s[i] = imports_beginning_marker /\ e # 0
       THEN [ok |-> TRUE, first |-> i + 1, last |-> e - 1]
       ELSE [ok |-> FALSE, first |-> i, last |-> i]

\* one match of import_statements_block_regex starting at index i: [ok, first, last]
\*   begin marker  [,;]*  (?<importStatements>.*?)  end marker      (flags g and s)
\* first..last are the captured importStatements
import_statements_block_regex(s, i) ==
    LET c == SkipWhile(s, {",", ";"}, i + 1)
        e == IndexFrom(s, imports_ending_marker, c)
    IN IF i <= Len(s) /\ s[i] = imports_beginning_marker /\ e # 0
       THEN [ok |-> TRUE, first |-> c, last |-> e - 1]
       ELSE [ok |-> FALSE, first |-> i, last |-> i]

\* a replace of the first match only, as of an expression without the g flag
StripBlocksOnce(s, i, acc) ==
    LET b == IndexFrom(s, imports_beginning_marker, i)
        m == import_statements_block_regex(s, b)
    IN IF b # 0 /\ m.ok
       THEN [StripImports(SubSeq(s, m.first, m.last), 1,
                          [acc EXCEPT !.out = @ \o SubSeq(s, i, b - 1)])
                EXCEPT !.out = @ \o SubSeq(s, m.last + 2, Len(s))]
       ELSE [acc EXCEPT !.out = @ \o SubSeq(s, i, Len(s))]

\* js_content.replaceAll(import_statements_block_regex, ...): [out, paths]
RECURSIVE StripBlocks(_, _, _)
StripBlocks(s, i, acc) ==
    IF i > Len(s) THEN acc
    ELSE LET m == import_statements_block_regex(s, i)
         IN IF m.ok
            THEN StripBlocks(s, m.last + 2,
                             StripImports(SubSeq(s, m.first, m.last), 1, acc))
            ELSE StripBlocks(s, i + 1, [acc EXCEPT !.out = Append(@, s[i])])

---------------------------------------------------------------------------
(* await import(js_blob_url): the evaluation of the residual script as a module *)

EvalFailure == [ok |-> FALSE, value |-> <<>>, next |-> 0]

\* the character an escape sequence of a string literal stands for
Unescape(x) ==
    CASE x = "n" -> <<"\n">>
      [] x = "r" -> <<"\r">>
      [] x = "t" -> <<"\t">>
      [] x \in LineTerminators -> <<>>
      [] OTHER -> <<x>>

\* a double-quoted string literal whose opening quote precedes index j: its value
RECURSIVE StringBody(_, _, _)
StringBody(s, j, acc) ==
    IF j > Len(s) THEN EvalFailure
    ELSE IF s[j] = "\"" THEN [ok |-> TRUE, value |-> acc, next |-> j + 1]
    ELSE IF s[j] \in LineTerminators THEN EvalFailure
    ELSE IF s[j] = "\\"
    THEN (IF j + 1 > Len(s) THEN EvalFailure
          ELSE StringBody(s, j + 2, acc \o Unescape(s[j + 1])))
    ELSE IF s[j] = "<\\/script>" THEN StringBody(s, j + 1, Append(acc, "</script>"))
    ELSE StringBody(s, j + 1, Append(acc, s[j]))

\* String.raw applied to the template literal whose opening backtick precedes index j:
\* the raw text of the template (a backslash keeps what follows it from ending the
\* template or starting a substitution and stays in the text; a carriage return is
\* read as a line feed) interleaved with the values of the substitutions
RECURSIVE TemplateBody(_, _, _)
TemplateBody(s, j, acc) ==
    IF j > Len(s) THEN EvalFailure
    ELSE IF s[j] = backtick THEN [ok |-> TRUE, value |-> acc, next |-> j + 1]
    ELSE IF s[j] = "\\"
    THEN (IF j + 1 > Len(s) THEN EvalFailure
          ELSE IF s[j + 1] = "\r"
          THEN TemplateBody(s, IF j + 2 <= Len(s) /\ s[j + 2] = "\n" THEN j + 3 ELSE j + 2,
                            acc \o <<"\\", "\n">>)
          ELSE TemplateBody(s, j + 2, acc \o <<"\\", s[j + 1]>>))
    ELSE IF (s[j] = "$" /\ j + 1 <= Len(s) /\ s[j + 1] = "{")
    THEN (LET lit == IF j + 2 <= Len(s) /\ s[j + 2] = "\""
                     THEN StringBody(s, j + 3, <<>>) ELSE EvalFailure
          IN IF lit.ok /\ lit.next <= Len(s) /\ s[lit.next] = "}"
             THEN TemplateBody(s, lit.next + 1, acc \o lit.value)
             ELSE EvalFailure)
    ELSE IF s[j] = "\r"
    THEN TemplateBody(s, IF j + 1 <= Len(s) /\ s[j + 1] = "\n" THEN j + 2 ELSE j + 1,
                      Append(acc, "\n"))
    ELSE TemplateBody(s, j + 1, Append(acc, s[j]))

ModuleFailure == [ok |-> FALSE, content |-> <<>>, importKeys |-> <<>>]

\* the statements of the module from index i on; st is what has been evaluated:
\* [declared, exported, content, importKeys, sep]; sep says that a statement may start here
RECURSIVE EvalStatements(_, _, _)
EvalStatements(s, i, st) ==
    IF i > Len(s)
    THEN (IF st.declared /\ st.exported
          THEN [ok |-> TRUE, content |-> st.content, importKeys |-> st.importKeys]
          ELSE ModuleFailure)
    ELSE IF s[i] \in LineTerminators \cup {";"}
    THEN EvalStatements(s, i + 1, [st EXCEPT !.sep = TRUE])
    ELSE IF s[i] \in WhiteSpace THEN EvalStatements(s, i + 1, st)
    ELSE IF ~st.sep THEN ModuleFailure
    ELSE IF s[i] = import_keys_declaration
    THEN (IF st.declared THEN ModuleFailure
          ELSE EvalStatements(s, i + 1, [st EXCEPT !.declared = TRUE, !.sep = FALSE]))
    ELSE IF s[i] = "importKeys.push("
    THEN (LET lit == IF i + 1 <= Len(s) /\ s[i + 1] = "\""
                     THEN StringBody(s, i + 2, <<>>) ELSE EvalFailure
          IN IF st.declared /\ lit.ok /\ lit.next <= Len(s) /\ s[lit.next] = ")"
             THEN EvalStatements(s, lit.next + 1,
                      [st EXCEPT !.importKeys = Append(@, lit.value), !.sep = FALSE])
             ELSE ModuleFailure)
    ELSE IF s[i] = content_export_head
    THEN (LET tpl == IF i + 1 <= Len(s) /\ s[i + 1] = backtick
                     THEN TemplateBody(s, i + 2, <<>>) ELSE EvalFailure
          IN IF ~st.exported /\ tpl.ok
             THEN EvalStatements(s, tpl.next,
                      [st EXCEPT !.content = tpl.value, !.exported = TRUE, !.sep = FALSE])
             ELSE ModuleFailure)
    ELSE ModuleFailure

\* { content, importKeys } = await import(js_blob_url)
EvalModule(s) ==
    EvalStatements(s, 1, [declared |-> FALSE, exported |-> FALSE, content |-> <<>>,
                          importKeys |-> <<>>, sep |-> TRUE])

---------------------------------------------------------------------------
(* GenericLoader.unparseFromJs, src/src/loader.ts *)

\* a comparison of the lengths of the serializations only
KeyMismatchOfLength(key, import_entry) ==
    Len(json_stringify(key)) # Len(json_stringify(import_entry.key))

\* json_stringify(key) !== json_stringify(import_entry.key)
KeyMismatch(key, import_entry) == json_stringify(key) # json_stringify(import_entry.key)

\* a count check that forgets the recovered paths
CountMismatchOfMetaOnly(number_of_imports, importPaths, metaImports_, metaEnabled_) ==
    DEBUG_META = 1 /\ metaEnabled_ /\ number_of_imports # Len(metaImports_)

\* a count check that forgets the metadata entries
CountMismatchOfPathsOnly(number_of_imports, importPaths, metaImports_, metaEnabled_) ==
    number_of_imports # Len(importPaths)

\* number_of_imports !== importPaths.length
\*   || (DEBUG.META && metaEnabled && number_of_imports !== metaImports.length)
CountMismatch(number_of_imports, importPaths, metaImports_, metaEnabled_) ==
    \/ number_of_imports # Len(importPaths)
    \/ (DEBUG_META = 1 /\ metaEnabled_ /\ number_of_imports # Len(metaImports_))

\* a loop that checks the keys and forgets to record the path
RECURSIVE MetaLoopWithoutOut(_, _, _)
MetaLoopWithoutOut(zipped, i, meta) ==
    IF i > Len(zipped) THEN [meta |-> meta, thrown |-> FALSE]
    ELSE IF DEBUG_ASSERT = 1 /\ KeyMismatch(zipped[i][1], zipped[i][3])
    THEN [meta |-> meta, thrown |-> TRUE]
    ELSE MetaLoopWithoutOut(zipped, i + 1, meta)

\* a loop that records the paths and goes on after a key mismatch
RECURSIVE MetaLoopWithoutThrow(_, _, _)
MetaLoopWithoutThrow(zipped, i, meta) ==
    IF i > Len(zipped) THEN [meta |-> meta, thrown |-> FALSE]
    ELSE MetaLoopWithoutThrow(zipped, i + 1, [meta EXCEPT ![i].out = zipped[i][2]])

\* a loop that takes back the paths it has recorded when it meets a key mismatch
RECURSIVE MetaLoopTakingBack(_, _, _)
MetaLoopTakingBack(zipped, i, meta) ==
    IF i > Len(zipped) THEN [meta |-> meta, thrown |-> FALSE]
    ELSE IF DEBUG_ASSERT = 1 /\ KeyMismatch(zipped[i][1], zipped[i][3])
    THEN [meta |-> [k \in 1..Len(meta) |-> zipped[k][3]], thrown |-> TRUE]
    ELSE MetaLoopTakingBack(zipped, i + 1, [meta EXCEPT ![i].out = zipped[i][2]])

\* the loop over zipArrays(importKeys, importPaths, metaImports) from tuple i on:
\* [meta, thrown]; an entry is updated in place before the next tuple is looked at
RECURSIVE MetaLoop(_, _, _)
MetaLoop(zipped, i, meta) ==
    IF i > Len(zipped) THEN [meta |-> meta, thrown |-> FALSE]
    ELSE IF DEBUG_ASSERT = 1 /\ KeyMismatch(zipped[i][1], zipped[i][3])
    THEN [meta |-> meta, thrown |-> TRUE]
    ELSE MetaLoop(zipped, i + 1, [meta EXCEPT ![i].out = zipped[i][2]])

\* URL.createObjectURL(js_blob) of unparseFromJs: one more live object URL; the
\* method has no URL.revokeObjectURL
createObjectURL(live) == live \cup {Cardinality(live) + 1}

NoDependencies == [content |-> <<>>, importKeys |-> <<>>, importPaths |-> <<>>]

\* unparseFromJs(js_content) on an instance whose meta.imports is metaImports_
unparseFromJs(js_content, metaImports_, metaEnabled_) ==
    LET stripped == StripBlocks(js_content, 1, [out |-> <<>>, paths |-> <<>>])
        module == EvalModule(stripped.out)
        number_of_imports == Len(module.importKeys)
        loop == IF DEBUG_META = 1 /\ metaEnabled_
                THEN MetaLoop(zipArrays(<<module.importKeys, stripped.paths, metaImports_>>),
                              1, metaImports_)
                ELSE [meta |-> metaImports_, thrown |-> FALSE]
        dependencies == [importKeys |-> module.importKeys,
                         importPaths |-> stripped.paths,
                         content |-> module.content]
        base == [residual |-> stripped.out, importPaths |-> stripped.paths,
                 module |-> module, metaImports |-> metaImports_,
                 handed |-> <<>>, result |-> <<>>, outcome |-> "script_error"]
    IN IF ~module.ok THEN base
       ELSE IF (DEBUG_ASSERT = 1
                /\ CountMismatch(number_of_imports, stripped.paths, metaImports_, metaEnabled_))
       THEN [base EXCEPT !.outcome = "count_mismatch"]
       ELSE IF loop.thrown
       THEN [base EXCEPT !.outcome = "key_mismatch", !.metaImports = loop.meta]
       ELSE [base EXCEPT !.outcome = "resolved", !.metaImports = loop.meta,
                         !.handed = <<dependencies>>, !.result = insertDeps(dependencies)]

---------------------------------------------------------------------------
(* the external bundler, src/examples/1_html/build.ts: what esbuild.build does to
   the wrapped script, as far as unparseFromJs can tell *)

\* the output path the bundler gives a dependency
BundledAtom(a) == CASE a = "p" -> "x" [] a = "q" -> "y" [] OTHER -> a
BundledPath(path) == [i \in 1..Len(path) |-> BundledAtom(path[i])]

\* the bundler prints every path literal anew with the output path, and prints the
\* closing script tag with a backslash wherever the tag occurs in the script
RECURSIVE BundlerPrint(_, _)
BundlerPrint(s, i) ==
    IF i > Len(s) THEN <<>>
    ELSE IF (s[i] = "import(" /\ i + 1 <= Len(s) /\ s[i + 1] = "\""
             /\ StringBody(s, i + 2, <<>>).ok)
    THEN <<"import(">> \o json_stringify(BundledPath(StringBody(s, i + 2, <<>>).value))
         \o BundlerPrint(s, StringBody(s, i + 2, <<>>).next)
    ELSE IF s[i] = "</script>" THEN <<"<\\/script>">> \o BundlerPrint(s, i + 1)
    ELSE <<s[i]>> \o BundlerPrint(s, i + 1)

\* the last index of atom a in s; 0 when there is none
RECURSIVE LastIndex(_, _, _)
LastIndex(s, a, i) ==
    IF i < 1 THEN 0 ELSE IF s[i] = a THEN i ELSE LastIndex(s, a, i - 1)

\* the statement separators a minifier leaves directly after the begin marker
Separators == {<<"\n">>, <<";">>, <<";", ";">>, <<",">>, <<",", ",">>}

\* the line break after the begin marker replaced by the separator sep
WithSeparator(s, sep) ==
    LET b == IndexFrom(s, imports_beginning_marker, 1)
    IN IF b # 0 /\ b + 1 <= Len(s) /\ s[b + 1] = "\n"
       THEN SubSeq(s, 1, b) \o sep \o SubSeq(s, b + 2, Len(s))
       ELSE s

\* a bundler that breaks the wrapper: the last import statement is dropped, or the
\* last key push together with its import
Tampered(s, tamper) ==
    LET e == LastIndex(s, imports_ending_marker, Len(s))
        a == LastIndex(s, IF tamper = "drop_import" THEN "await" ELSE "importKeys.push(", Len(s))
    IN IF tamper = "none" \/ a = 0 \/ e = 0 \/ a > e THEN s
       ELSE SubSeq(s, 1, a - 2) \o SubSeq(s, e - 1, Len(s))

Bundler(s, o) ==
    IF o.mode = "identity" THEN s
    ELSE Tampered(WithSeparator(BundlerPrint(s, 1), o.sep), o.tamper)

---------------------------------------------------------------------------
(* the inputs *)

UUIDs == {"u1", "u2", "u3"}

\* the sequences of n different values crypto.randomUUID() can return
UuidSeqs(n) == {ids \in [1..n -> UUIDs] : \A i, j \in 1..n : i # j => ids[i] # ids[j]}

TextAtoms == {"a", "$", backtick, "\\", "\r", "</script>"}
Paths == {<<"p">>, <<"q">>}

Pieces == {<<a>> : a \in TextAtoms} \cup {<<"src", "=", "\"">> \o path \o <<"\"">> : path \in Paths}

RawContents ==
    UNION {{Join(ps) : ps \in [1..n -> Pieces]} : n \in 0..MaxPieces}

BundlerOptions(n) ==
    {[mode |-> "identity", sep |-> <<"\n">>, tamper |-> "none", ids |-> <<>>]}
    \cup {[mode |-> "esbuild", sep |-> sep, tamper |-> t, ids |-> <<>>] :
            sep \in Separators,
            t \in IF n = 0 THEN {"none"} ELSE {"none", "drop_import", "drop_pair"}}

\* the parseToJs calls made on an instance that is used more than once
CallIds == {1, 2}

\* the values crypto.randomUUID() returns during call c, in order
CallUuidAtoms ==
    << <<"c1u1", "c1u2", "c1u3", "c1u4">>, <<"c2u1", "c2u2", "c2u3", "c2u4">> >>

\* the contents given to the calls of a reused instance
CallPieces == {<<"a">>, <<"src", "=", "\"", "p", "\"">>}
CallContents ==
    UNION {{Join(ps) : ps \in [1..n -> CallPieces]} : n \in 0..MaxPieces}

\* what the extractDeps of a policy returns: the dependency set of the example
\* policy, or, for a policy that is not well formed, that set with one key or one
\* path more than it has pairs
Surplus == {"none", "key", "path"}
PolicyDeps(content, ids, surplus) ==
    LET d == extractDeps(content, ids)
    IN CASE surplus = "key" -> [d EXCEPT !.importKeys = Append(@, <<ids[Len(@) + 1]>>)]
         [] surplus = "path" -> [d EXCEPT !.importPaths = Append(@, <<"q">>)]
         [] OTHER -> d

IdleCall ==
    [pc |-> "idle", raw |-> <<>>, deps |-> NoDependencies, js |-> <<>>,
     after |-> {}, saw |-> {}, outcome |-> "none", result |-> <<>>, handed |-> <<>>]

---------------------------------------------------------------------------
(* the filesystem utilities, src/src/fs.ts.  A javascript value that can be
   undefined, a boolean or a string is modelled by a string: "undefined", "true"
   and "false" stand for undefined, true and false. *)

\* a parameter default of a destructuring pattern: { name = default_value } = config
Defaulted(value, default_value) == IF value = "undefined" THEN default_value ELSE value

\* contents ?? text: the left operand unless it is undefined
NullishCoalesce(left, right) == IF left.type = "undefined" THEN right ELSE left

UndefinedValue == [type |-> "undefined", value |-> <<>>]
StringValue(str) == [type |-> "string", value |-> str]
BytesValue(bytes) == [type |-> "Uint8Array", value |-> bytes]

\* resolvePath(dir, dst_path)
resolvePath(dir, dst_path) == <<dir, dst_path>>

\* the messages of createFiles
TopLevelMessage ==
    [text |-> "[in-fs] writing additional text/binary files to your build directory",
     path |-> <<>>]
FileMessage(abs_dst) == [text |-> "[in-fs] writing file to:", path |-> abs_dst]

\* logBasic(log_level, ...data): what it gives to console_log
logBasic(log_level, data) ==
    IF log_level = "basic" \/ log_level = "verbose" THEN <<data>> ELSE <<>>

\* logVerbose(log_level, ...data): what it gives to console_log
logVerbose(log_level, data) ==
    IF log_level = "verbose" THEN <<data>> ELSE <<>>

\* a test that ignores the dryrun option
WritesEnabledByDefault(dryrun) == TRUE

\* if (!dryrun)
WritesEnabled(dryrun) == dryrun # "true"

\* the record of one filesystem function being invoked for file i
FsOp(op, i, abs_dst) == [op |-> op, file |-> i, path |-> abs_dst]

\* typeof content === "string" ? writeTextFile : writeFile
WriteOp(content) == IF content.type = "string" THEN "writeTextFile" ELSE "writeFile"

\* an adapter that prefers the text of a record to its contents
OutputTupleTextFirst(virtual_file) ==
    [path |-> virtual_file.path,
     content |-> NullishCoalesce(NullishCoalesce(virtual_file.text, virtual_file.contents),
                                 StringValue(<<>>))]

\* the mapper of writeOutputFiles: [path, contents ?? text ?? ""]
OutputTuple(virtual_file) ==
    [path |-> virtual_file.path,
     content |-> NullishCoalesce(NullishCoalesce(virtual_file.contents, virtual_file.text),
                                 StringValue(<<>>))]

\* the inputs of the filesystem utilities
VirtualFiles ==
    {[path |-> "a.html", content |-> StringValue(<<"t">>)],
     [path |-> "b.js", content |-> BytesValue(<<"b">>)]}
OutputFiles ==
    {[path |-> "a.html", text |-> t, contents |-> c] :
        t \in {UndefinedValue, StringValue(<<"t">>)},
        c \in {UndefinedValue, BytesValue(<<"b">>)}}
LogLevels == {"undefined", "false", "true", "none", "basic", "verbose"}
Configs ==
    {[dir |-> "undefined", log |-> l, dryrun |-> d] :
        l \in LogLevels, d \in {"undefined", "false", "true"}}

NoConfig == [dir |-> "undefined", log |-> "undefined", dryrun |-> "undefined"]
NoFsCall == [fn |-> "none", files |-> <<>>, config |-> NoConfig]

---------------------------------------------------------------------------
(* ensureDir and ensureFile, src/src/fs.ts, over a filesystem of one directory d
   and one entry d/f.  An entry is "none", "dir", "full" (a file with content) or
   "empty" (a file without content).  An error is named by its code; "NoCode" is an
   error object without a code property. *)

EnsurePaths == {"d", "d/f"}
EmptyDisk == [p \in EnsurePaths |-> "none"]
IsFileEntry(e) == e \in {"full", "empty"}

\* the filesystems there can be: d/f exists only in a directory d
Disks ==
    {dk \in [EnsurePaths -> {"none", "dir", "full"}] : dk["d/f"] # "none" => dk["d"] = "dir"}

\* RUNTIME of the runtime identified by identifyCurrentRuntime(); WEB stands for the
\* runtimes without a filesystem
SystemRuntimes == {"DENO", "BUN", "NODE"}
Runtimes == SystemRuntimes \cup {"WEB"}

\* what the code leaves to the runtime and to the library:
\*   strictSlash: whether the operating system refuses a path with a trailing slash
\*     that names something other than a directory (POSIX does)
\*   dirpathOfSlashed: what parseFilepathInfo(file_path).dirpath is for a file_path
\*     that ends with a slash: the directory above, or the path itself
Platforms ==
    [runtime_enum : Runtimes, strictSlash : BOOLEAN, dirpathOfSlashed : {"parent", "self"}]
NoPlatform == [runtime_enum |-> "WEB", strictSlash |-> TRUE, dirpathOfSlashed |-> "parent"]
NoEnsureCall == [fn |-> "none", path |-> "/"]

ParentOf(p) == IF p = "d/f" THEN "d" ELSE "/"
EntryAt(dk, p) == IF p = "/" THEN "dir" ELSE dk[p]

\* errors that come from the environment rather than from the entries: permission
\* denied, and an error object that carries no code
Faults == {"EACCES", "NoCode"}
FaultResults(dk) == {[error |-> f, fault |-> TRUE, kind |-> "none", disk |-> dk] : f \in Faults}
Failed(dk, code) == [error |-> code, fault |-> FALSE, kind |-> "none", disk |-> dk]
Succeeded(dk, kind) == [error |-> "none", fault |-> FALSE, kind |-> kind, disk |-> dk]

\* ensureEndSlash(ensureFileUrlIsLocalPath(path)): every path ensureDir and
\* ensureFile give to the filesystem ends with a slash.  The results below are those
\* of the filesystem functions for the path p followed by a slash.

\* fs.stat(p + "/") and runtime.stat(p + "/")
StatResults(dk, p, strictSlash) ==
    FaultResults(dk) \cup
    (IF IsFileEntry(EntryAt(dk, ParentOf(p))) THEN {Failed(dk, "ENOTDIR")}
     ELSE IF EntryAt(dk, ParentOf(p)) = "none" \/ EntryAt(dk, p) = "none"
     THEN {Failed(dk, "ENOENT")}
     ELSE IF EntryAt(dk, p) = "dir" THEN {Succeeded(dk, "dir")}
     ELSE IF strictSlash THEN {Failed(dk, "ENOTDIR")}
     ELSE {Succeeded(dk, "file")})

\* the filesystem after p and the directories above it have been created
WithDirectories(dk, p) ==
    [q \in EnsurePaths |-> IF q = p \/ q = ParentOf(p) THEN "dir" ELSE dk[q]]

\* fs.mkdir(p + "/", { recursive: true }) and runtime.mkdir(p + "/", { recursive: true }).
\* Deno accepts an existing directory; the mkdir of node:fs/promises may report it
\* with EEXIST, which is what the rejection handler of node_ensureDir is for
MkdirResults(dk, p, runtime_enum) ==
    FaultResults(dk) \cup
    (IF IsFileEntry(EntryAt(dk, ParentOf(p))) THEN {Failed(dk, "ENOTDIR")}
     ELSE IF EntryAt(dk, p) = "dir"
     THEN {Succeeded(dk, "dir")}
          \cup (IF runtime_enum = "DENO" THEN {} ELSE {Failed(dk, "EEXIST")})
     ELSE IF IsFileEntry(EntryAt(dk, p)) THEN {Failed(dk, "EEXIST"), Failed(dk, "ENOTDIR")}
     ELSE {Succeeded(WithDirectories(dk, p), "dir")})

\* fs.writeFile(p + "/", "") and runtime.writeFile(p + "/", new Uint8Array(0))
WriteFileResults(dk, p, strictSlash) ==
    FaultResults(dk) \cup
    (IF IsFileEntry(EntryAt(dk, ParentOf(p))) THEN {Failed(dk, "ENOTDIR")}
     ELSE IF EntryAt(dk, ParentOf(p)) = "none" THEN {Failed(dk, "ENOENT")}
     ELSE IF EntryAt(dk, p) = "dir" THEN {Failed(dk, "EISDIR")}
     ELSE IF strictSlash
     THEN {Failed(dk, IF EntryAt(dk, p) = "none" THEN "EISDIR" ELSE "ENOTDIR")}
     ELSE {Succeeded([dk EXCEPT ![p] = "empty"], "file")})

\* (error.code as string).toUpperCase() === code: [thrown, equal]; the expression
\* throws a TypeError for an error without a code
CodeIs(error, code) ==
    IF error = "NoCode" THEN [thrown |-> TRUE, equal |-> FALSE]
    ELSE [thrown |-> FALSE, equal |-> error = code]

\* parseFilepathInfo(file_path).dirpath for the file_path of ensureFile
DirpathOf(p, dirpathOfSlashed) == IF dirpathOfSlashed = "self" THEN p ELSE ParentOf(p)

\* a rejection handler that rethrows whatever the error is
ExistsErrorRethrown(error) == FALSE

\* whether the rejection handler of node_ensureDir looks at the entry: the error of
\* mkdir says that something exists
ExistsError(error) == CodeIs(error, "EEXIST").equal

\* what follows the directory being there: ensureDir is done, ensureFile writes
AfterDirectory == IF ensureCall.fn = "ensureDir" THEN "resolved" ELSE "writeFile"

LoggedOp(fn, p, r) == [fn |-> fn, path |-> p, error |-> r.error, fault |-> r.fault]

---------------------------------------------------------------------------
(* the life of one loader instance *)

NoOptions == [mode |-> "identity", sep |-> <<>>, tamper |-> "none", ids |-> <<>>]

Init ==
    /\ metaEnabled \in BOOLEAN
    /\ metaImports = <<>>
    /\ pc = "constructed"
    /\ raw = <<>>
    /\ deps = NoDependencies
    /\ js = <<>>
    /\ opts = NoOptions
    /\ bundled = <<>>
    /\ residual = <<>>
    /\ recovered = <<>>
    /\ evaluated = ModuleFailure
    /\ handed = <<>>
    /\ outcome = "none"
    /\ result = <<>>
    /\ liveBlobUrls = {}
    /\ calls = [c \in CallIds |-> IdleCall]
    /\ started = <<>>
    /\ completed = <<>>
    /\ fsCall = NoFsCall
    /\ fsPc = "idle"
    /\ virtual_files = <<>>
    /\ config = NoConfig
    /\ filePc = <<>>
    /\ console = <<>>
    /\ fsOps = <<>>
    /\ zipPc = "idle"
    /\ zipArgs = <<>>
    /\ zipMapped = FALSE
    /\ zipMinLen = Infinity
    /\ zipI = 0
    /\ zipOutput = <<>>
    /\ zipTurn = 0
    /\ platform = NoPlatform
    /\ disk = EmptyDisk
    /\ diskBefore = EmptyDisk
    /\ ensureCall = NoEnsureCall
    /\ ensurePc = "unmounted"
    /\ ensureTarget = "/"
    /\ ensureOps = <<>>
    /\ ensureRaised = "none"
    /\ ensureThrown = "none"
    /\ ensureHistory = <<>>

\* await loader.parseToJs(raw_content)
ParseToJs ==
    /\ pc = "constructed"
    /\ \E raw_content \in RawContents :
         \E ids \in UuidSeqs(CountSrc(raw_content, 1)) :
            LET d == extractDeps(raw_content, ids)
            IN /\ raw' = raw_content
               /\ deps' = d
               /\ js' = WrappedScript(d)
               /\ metaImports' = PushMetaEntries(metaImports, d)
    /\ pc' = "wrapped"
    /\ UNCHANGED <<metaEnabled, opts, bundled, residual, recovered, evaluated,
                   handed, outcome, result, liveBlobUrls, callVars, fsVars, zipVars,
                   ensureVars>>

\* await esbuild.build({ stdin: { contents: js_content } }), or the wrapped script
\* of another parseToJs call on the same file
Bundle ==
    /\ pc = "wrapped"
    /\ \/ \E o \in BundlerOptions(Len(deps.importKeys)) :
            /\ opts' = o
            /\ bundled' = Bundler(js, o)
       \/ \E ids \in UuidSeqs(Len(deps.importKeys)) :
            /\ ids # [i \in 1..Len(deps.importKeys) |-> deps.importKeys[i][1]]
            /\ opts' = [mode |-> "foreign", sep |-> <<"\n">>, tamper |-> "none", ids |-> ids]
            /\ bundled' = WrappedScript(extractDeps(raw, ids))
    /\ pc' = "bundled"
    /\ UNCHANGED <<metaEnabled, metaImports, raw, deps, js, residual, recovered,
                   evaluated, handed, outcome, result, liveBlobUrls, callVars, fsVars,
                   zipVars, ensureVars>>

\* await loader.unparseFromJs(js_content_bundled)
UnparseFromJs ==
    /\ pc = "bundled"
    /\ LET u == unparseFromJs(bundled, metaImports, metaEnabled)
       IN /\ residual' = u.residual
          /\ recovered' = u.importPaths
          /\ evaluated' = u.module
          /\ metaImports' = u.metaImports
          /\ handed' = u.handed
          /\ outcome' = u.outcome
          /\ result' = u.result
    /\ liveBlobUrls' = createObjectURL(liveBlobUrls)
    /\ pc' = "done"
    /\ UNCHANGED <<metaEnabled, raw, deps, js, opts, bundled, callVars, fsVars, zipVars,
                   ensureVars>>

Next == ParseToJs \/ Bundle \/ UnparseFromJs

Spec == Init /\ [][Next]_vars

---------------------------------------------------------------------------
(* one cycle on a file whose text spells marker strings and import calls, with a
   policy whose paths may hold backslashes, double quotes or a marker string; the
   bundler leaves the script as it is *)

\* the text of a whole marked span, as a document may quote it
QuotedSpan ==
    <<imports_beginning_marker, ",", "await", " ", "import(", "\"", "q", "\"", ")", ";",
      "a", imports_ending_marker>>

ScriptPieces ==
    {<<"a">>, <<imports_beginning_marker>>, <<imports_ending_marker>>, QuotedSpan,
     <<"src", "=", "\"", "p", "\"">>}

ScriptContents ==
    {content \in UNION {{Join(ps) : ps \in [1..n -> ScriptPieces]} : n \in 0..MaxPieces} :
        Len(content) <= MaxScriptLength}

\* the paths the policy reports for the references of the document
ScriptPaths == {<<"p">>, <<"\\">>, <<"\"", ")">>, <<imports_ending_marker>>}

\* the sequences of n different keys the policy can give: random identifiers, or a
\* key that spells the end marker
ScriptKeySeqs(n) ==
    {ids \in [1..n -> {"u1", "u2", imports_ending_marker}] :
        \A i, j \in 1..n : i # j => ids[i] # ids[j]}

\* await loader.parseToJs(raw_content) with such a policy
ParseToJsOfScript ==
    /\ pc = "constructed"
    /\ \E raw_content \in ScriptContents :
         \E ids \in ScriptKeySeqs(CountSrc(raw_content, 1)) :
            \E paths \in [1..CountSrc(raw_content, 1) -> ScriptPaths] :
               LET d == [extractDeps(raw_content, ids) EXCEPT !.importPaths = paths]
               IN /\ raw' = raw_content
                  /\ deps' = d
                  /\ js' = WrappedScript(d)
                  /\ metaImports' = PushMetaEntries(metaImports, d)
    /\ pc' = "wrapped"
    /\ UNCHANGED <<metaEnabled, opts, bundled, residual, recovered, evaluated,
                   handed, outcome, result, liveBlobUrls, callVars, fsVars, zipVars,
                   ensureVars>>

\* the script reaches unparseFromJs unmodified
KeepScript ==
    /\ pc = "wrapped"
    /\ opts' = [mode |-> "identity", sep |-> <<"\n">>, tamper |-> "none", ids |-> <<>>]
    /\ bundled' = js
    /\ pc' = "bundled"
    /\ UNCHANGED <<metaEnabled, metaImports, raw, deps, js, residual, recovered,
                   evaluated, handed, outcome, result, liveBlobUrls, callVars, fsVars,
                   zipVars, ensureVars>>

NextScripts == ParseToJsOfScript \/ KeepScript \/ UnparseFromJs

SpecScripts == Init /\ [][NextScripts]_vars

---------------------------------------------------------------------------
(* one instance used for two parseToJs calls, which may be in flight together:
   parseToJs suspends at await this.extractDeps(...) and at
   await this.contentExportJs(...), and runs to its return after the second *)

\* loader.parseToJs(raw_content) is invoked: up to the first await
CallParseToJs(c) ==
    /\ calls[c].pc = "idle"
    /\ \E raw_content \in CallContents, surplus \in Surplus :
         calls' = [calls EXCEPT ![c] =
                     [@ EXCEPT !.pc = "extractDeps",
                               !.raw = raw_content,
                               !.deps = PolicyDeps(raw_content, CallUuidAtoms[c], surplus),
                               !.after = {d \in CallIds : calls[d].pc = "unparsed"}]]
    /\ started' = Append(started, c)
    /\ UNCHANGED <<metaEnabled, metaImports, liveBlobUrls, completed, cycleVars, fsVars, zipVars,
                   ensureVars>>

\* the promise of extractDeps resolves: deps_js_string is built and contentExportJs
\* is called, up to the second await
ExtractDepsResolved(c) ==
    /\ calls[c].pc = "extractDeps"
    /\ calls' = [calls EXCEPT ![c].pc = "contentExportJs"]
    /\ UNCHANGED <<metaEnabled, metaImports, liveBlobUrls, started, completed, cycleVars, fsVars,
                   zipVars, ensureVars>>

\* the promise of contentExportJs resolves: the entries are pushed and the wrapped
\* script is returned
ContentExportJsResolved(c) ==
    /\ calls[c].pc = "contentExportJs"
    /\ metaImports' = PushMetaEntries(metaImports, calls[c].deps)
    /\ calls' = [calls EXCEPT ![c] =
                   [@ EXCEPT !.pc = "returned", !.js = WrappedScript(calls[c].deps)]]
    /\ completed' = Append(completed, c)
    /\ UNCHANGED <<metaEnabled, liveBlobUrls, started, cycleVars, fsVars, zipVars, ensureVars>>

\* await loader.unparseFromJs(js) on the unmodified output of call c
CallUnparseFromJs(c) ==
    /\ calls[c].pc = "returned"
    /\ LET u == unparseFromJs(calls[c].js, metaImports, metaEnabled)
       IN /\ metaImports' = u.metaImports
          /\ calls' = [calls EXCEPT ![c] =
                         [@ EXCEPT !.pc = "unparsed",
                                   !.saw = {d \in CallIds : calls[d].pc \in {"returned", "unparsed"}},
                                   !.outcome = u.outcome,
                                   !.result = u.result,
                                   !.handed = u.handed]]
    /\ liveBlobUrls' = createObjectURL(liveBlobUrls)
    /\ UNCHANGED <<metaEnabled, started, completed, cycleVars, fsVars, zipVars, ensureVars>>

NextCalls ==
    \E c \in CallIds :
        \/ CallParseToJs(c)
        \/ ExtractDepsResolved(c)
        \/ ContentExportJsResolved(c)
        \/ CallUnparseFromJs(c)

SpecCalls == Init /\ [][NextCalls]_vars

---------------------------------------------------------------------------
(* the example policy on its own: extractDeps, then insertDeps with the paths
   replaced position by position *)

\* the paths of the src attributes of a document, and the paths a bundler gives
HtmlPaths == {<<"p">>, <<"$", "$">>, <<"$", "&">>}
TransformedPaths == HtmlPaths \cup {<<"x">>}

\* the pieces of a document: text, and src attributes without and with white space
\* around the equals sign
HtmlPieces ==
    {<<"a">>, <<"$">>}
    \cup {<<"src", "=", "\"">> \o path \o <<"\"">> : path \in HtmlPaths}
    \cup {<<"src", " ", "=", " ", "\"", "p", "\"">>}
HtmlContents ==
    UNION {{Join(ps) : ps \in [1..n -> HtmlPieces]} : n \in 0..MaxPieces}

\* await loader.extractDeps(content)
HtmlExtractDeps ==
    /\ pc = "constructed"
    /\ \E content \in HtmlContents :
         \E ids \in UuidSeqs(CountSrc(content, 1)) :
            /\ raw' = content
            /\ deps' = extractDeps(content, ids)
    /\ pc' = "extracted"
    /\ UNCHANGED <<metaEnabled, metaImports, js, opts, bundled, residual, recovered,
                   evaluated, handed, outcome, result, liveBlobUrls, callVars, fsVars,
                   zipVars, ensureVars>>

\* await loader.insertDeps({ ...deps, importPaths }), importPaths being the paths of
\* deps (keep is TRUE) or transformed paths
HtmlInsertDeps ==
    /\ pc = "extracted"
    /\ \E keep \in BOOLEAN :
         \E paths \in [1..Len(deps.importPaths) -> TransformedPaths] :
            /\ keep => paths = deps.importPaths
            /\ ~keep => paths # deps.importPaths
            /\ handed' = <<[deps EXCEPT !.importPaths = paths]>>
            /\ result' = insertDeps([deps EXCEPT !.importPaths = paths])
    /\ pc' = "inserted"
    /\ UNCHANGED <<metaEnabled, metaImports, raw, deps, js, opts, bundled, residual,
                   recovered, evaluated, outcome, liveBlobUrls, callVars, fsVars, zipVars,
                   ensureVars>>

NextHtml == HtmlExtractDeps \/ HtmlInsertDeps

SpecHtml == Init /\ [][NextHtml]_vars

---------------------------------------------------------------------------
(* one call of createFiles or writeOutputFiles, src/src/fs.ts *)

\* createFiles(files, cfg) up to the await of promise_all: the callbacks of
\* virtual_files.map run in order, each up to its first await
createFilesCalled(files, cfg) ==
    LET dir == Defaulted(cfg.dir, "./")
        log == Defaulted(cfg.log, "basic")
        dryrun == Defaulted(cfg.dryrun, "false")
        abs_dst(i) == resolvePath(dir, files[i].path)
    IN /\ virtual_files' = files
       /\ config' = cfg
       /\ console' = console \o logBasic(log, TopLevelMessage)
                      \o Join([i \in 1..Len(files) |-> logVerbose(log, FileMessage(abs_dst(i)))])
       /\ fsOps' = IF WritesEnabled(dryrun)
                   THEN fsOps \o [i \in 1..Len(files) |-> FsOp("ensureFile", i, abs_dst(i))]
                   ELSE fsOps
       /\ filePc' = [i \in 1..Len(files) |->
                       IF WritesEnabled(dryrun) THEN "ensureFile" ELSE "done"]
       /\ fsPc' = IF WritesEnabled(dryrun) /\ files # <<>> THEN "pending" ELSE "resolved"

\* await createFiles(virtual_files, config)
CreateFiles ==
    /\ fsPc = "idle"
    /\ \E n \in 0..MaxFiles :
         \E files \in [1..n -> VirtualFiles], cfg \in Configs :
            /\ fsCall' = [fn |-> "createFiles", files |-> files, config |-> cfg]
            /\ createFilesCalled(files, cfg)
    /\ UNCHANGED <<metaEnabled, metaImports, liveBlobUrls, callVars, cycleVars, zipVars,
                   ensureVars>>

\* await writeOutputFiles(virtual_files, config)
WriteOutputFiles ==
    /\ fsPc = "idle"
    /\ \E n \in 0..MaxFiles :
         \E files \in [1..n -> OutputFiles], cfg \in Configs :
            /\ fsCall' = [fn |-> "writeOutputFiles", files |-> files, config |-> cfg]
            /\ createFilesCalled([i \in 1..n |-> OutputTuple(files[i])], cfg)
    /\ UNCHANGED <<metaEnabled, metaImports, liveBlobUrls, callVars, cycleVars, zipVars,
                   ensureVars>>

\* a promise that is fulfilled by the first callback that completes
AfterSettledOfAny(pcs, ok) ==
    IF fsPc # "pending" THEN fsPc
    ELSE IF ~ok THEN "rejected"
    ELSE IF \E k \in 1..Len(pcs) : pcs[k] = "done" THEN "resolved"
    ELSE "pending"

\* the promise of promise_all after the callback of one file settled
AfterSettled(pcs, ok) ==
    IF fsPc # "pending" THEN fsPc
    ELSE IF ~ok THEN "rejected"
    ELSE IF \A k \in 1..Len(pcs) : pcs[k] = "done" THEN "resolved"
    ELSE "pending"

\* await ensureFile(abs_dst) settles for file i; when it resolved the callback
\* calls writeTextFile or writeFile
EnsureFileSettled(i) ==
    /\ i \in 1..Len(filePc)
    /\ filePc[i] = "ensureFile"
    /\ \E ok \in BOOLEAN :
         LET pcs == [filePc EXCEPT ![i] = IF ok THEN "write" ELSE "rejected"]
             abs_dst == resolvePath(Defaulted(config.dir, "./"), virtual_files[i].path)
         IN /\ filePc' = pcs
            /\ fsOps' = IF ok
                        THEN Append(fsOps, FsOp(WriteOp(virtual_files[i].content), i, abs_dst))
                        ELSE fsOps
            /\ fsPc' = AfterSettled(pcs, ok)
    /\ UNCHANGED <<fsCall, virtual_files, config, console, ensureVars>>
    /\ UNCHANGED <<metaEnabled, metaImports, liveBlobUrls, callVars, cycleVars, zipVars,
                   ensureVars>>

\* await writeTextFile(...) or await writeFile(...) settles for file i
WriteSettled(i) ==
    /\ i \in 1..Len(filePc)
    /\ filePc[i] = "write"
    /\ \E ok \in BOOLEAN :
         LET pcs == [filePc EXCEPT ![i] = IF ok THEN "done" ELSE "rejected"]
         IN /\ filePc' = pcs
            /\ fsPc' = AfterSettled(pcs, ok)
    /\ UNCHANGED <<fsCall, virtual_files, config, console, fsOps, ensureVars>>
    /\ UNCHANGED <<metaEnabled, metaImports, liveBlobUrls, callVars, cycleVars, zipVars,
                   ensureVars>>

NextFs ==
    \/ CreateFiles
    \/ WriteOutputFiles
    \/ \E i \in 1..MaxFiles : EnsureFileSettled(i)
    \/ \E i \in 1..MaxFiles : WriteSettled(i)

SpecFs == Init /\ [][NextFs]_vars

---------------------------------------------------------------------------
(* calls of ensureDir and ensureFile, src/src/fs.ts, one after the other; each
   action is the part of a call between two awaits *)

\* the runtime and the filesystem the calls meet
Mount ==
    /\ ensurePc = "unmounted"
    /\ platform' \in Platforms
    /\ disk' \in IF platform'.runtime_enum \in SystemRuntimes THEN Disks ELSE {EmptyDisk}
    /\ ensurePc' = "idle"
    /\ UNCHANGED <<diskBefore, ensureCall, ensureTarget, ensureOps, ensureRaised,
                   ensureThrown, ensureHistory>>
    /\ UNCHANGED <<metaEnabled, metaImports, liveBlobUrls, cycleVars, callVars, fsVars, zipVars>>

\* a call starts: the state left by the call before it goes to the history
EnsureStarted(fn, p) ==
    /\ ensurePc \in {"idle", "resolved", "rejected"}
    /\ Len(ensureHistory) + (IF ensurePc = "idle" THEN 0 ELSE 1) < MaxEnsureCalls
    /\ ensureHistory' = IF ensurePc = "idle" THEN ensureHistory
                        ELSE Append(ensureHistory,
                                    [fn |-> ensureCall.fn, path |-> ensureCall.path,
                                     pc |-> ensurePc])
    /\ ensureCall' = [fn |-> fn, path |-> p]
    /\ diskBefore' = disk
    /\ ensureOps' = <<>>
    /\ ensureRaised' = "none"
    /\ UNCHANGED <<platform, disk>>
    /\ UNCHANGED <<metaEnabled, metaImports, liveBlobUrls, cycleVars, callVars, fsVars, zipVars>>

\* ensureDir(dir_path) up to its first await
EnsureDir ==
    \E p \in EnsurePaths :
        /\ EnsureStarted("ensureDir", p)
        /\ ensureTarget' = p
        /\ IF platform.runtime_enum \in SystemRuntimes
           THEN ensurePc' = "mkdir" /\ ensureThrown' = "none"
           ELSE ensurePc' = "rejected" /\ ensureThrown' = "Error"

\* ensureFile(file_path) up to its first await
EnsureFile ==
    \E p \in EnsurePaths :
        /\ EnsureStarted("ensureFile", p)
        /\ ensureTarget' = DirpathOf(p, platform.dirpathOfSlashed)
        /\ IF platform.runtime_enum \in SystemRuntimes
           THEN ensurePc' = "stat" /\ ensureThrown' = "none"
           ELSE ensurePc' = "rejected" /\ ensureThrown' = "Error"

\* the stat of ensureFile settles
ProbeSettled ==
    /\ ensurePc = "stat"
    /\ \E r \in StatResults(disk, ensureCall.path, platform.strictSlash) :
         /\ ensureOps' = Append(ensureOps, LoggedOp("stat", ensureCall.path, r))
         /\ IF r.error = "none"
            THEN /\ ensurePc' = IF r.kind = "file" THEN "resolved" ELSE "mkdir"
                 /\ UNCHANGED <<ensureRaised, ensureThrown>>
            ELSE /\ ensureRaised' = r.error
                 /\ IF CodeIs(r.error, "ENOENT").thrown
                    THEN ensurePc' = "rejected" /\ ensureThrown' = "TypeError"
                    ELSE IF CodeIs(r.error, "ENOENT").equal
                    THEN ensurePc' = "mkdir" /\ UNCHANGED ensureThrown
                    ELSE ensurePc' = "rejected" /\ ensureThrown' = r.error
    /\ UNCHANGED <<platform, disk, diskBefore, ensureCall, ensureTarget, ensureHistory>>
    /\ UNCHANGED <<metaEnabled, metaImports, liveBlobUrls, cycleVars, callVars, fsVars, zipVars>>

\* mkdir settles: runtime.mkdir of ensureDir under Deno, whose rejection is the
\* rejection of ensureDir, and fs.mkdir of node_ensureDir with its rejection handler
MkdirSettled ==
    /\ ensurePc = "mkdir"
    /\ \E r \in MkdirResults(disk, ensureTarget, platform.runtime_enum) :
         /\ ensureOps' = Append(ensureOps, LoggedOp("mkdir", ensureTarget, r))
         /\ disk' = r.disk
         /\ IF r.error = "none"
            THEN /\ ensurePc' = AfterDirectory
                 /\ UNCHANGED <<ensureRaised, ensureThrown>>
            ELSE /\ ensureRaised' = r.error
                 /\ IF platform.runtime_enum = "DENO"
                    THEN ensurePc' = "rejected" /\ ensureThrown' = r.error
                    ELSE IF CodeIs(r.error, "EEXIST").thrown
                    THEN ensurePc' = "rejected" /\ ensureThrown' = "TypeError"
                    ELSE IF ExistsError(r.error)
                    THEN ensurePc' = "mkdirStat" /\ UNCHANGED ensureThrown
                    ELSE ensurePc' = "rejected" /\ ensureThrown' = r.error
    /\ UNCHANGED <<platform, diskBefore, ensureCall, ensureTarget, ensureHistory>>
    /\ UNCHANGED <<metaEnabled, metaImports, liveBlobUrls, cycleVars, callVars, fsVars, zipVars>>

\* the stat of the rejection handler of node_ensureDir settles
MkdirStatSettled ==
    /\ ensurePc = "mkdirStat"
    /\ \E r \in StatResults(disk, ensureTarget, platform.strictSlash) :
         /\ ensureOps' = Append(ensureOps, LoggedOp("stat", ensureTarget, r))
         /\ IF r.error # "none"
            THEN ensureRaised' = r.error /\ ensurePc' = "rejected" /\ ensureThrown' = r.error
            ELSE IF r.kind = "dir"
            THEN ensurePc' = AfterDirectory /\ UNCHANGED <<ensureRaised, ensureThrown>>
            ELSE ensurePc' = "rejected" /\ ensureThrown' = ensureRaised
                 /\ UNCHANGED ensureRaised
    /\ UNCHANGED <<platform, disk, diskBefore, ensureCall, ensureTarget, ensureHistory>>
    /\ UNCHANGED <<metaEnabled, metaImports, liveBlobUrls, cycleVars, callVars, fsVars, zipVars>>

\* the writeFile of ensureFile settles
WriteFileSettled ==
    /\ ensurePc = "writeFile"
    /\ \E r \in WriteFileResults(disk, ensureCall.path, platform.strictSlash) :
         /\ ensureOps' = Append(ensureOps, LoggedOp("writeFile", ensureCall.path, r))
         /\ disk' = r.disk
         /\ IF r.error = "none"
            THEN ensurePc' = "resolved" /\ UNCHANGED <<ensureRaised, ensureThrown>>
            ELSE ensureRaised' = r.error /\ ensurePc' = "rejected" /\ ensureThrown' = r.error
    /\ UNCHANGED <<platform, diskBefore, ensureCall, ensureTarget, ensureHistory>>
    /\ UNCHANGED <<metaEnabled, metaImports, liveBlobUrls, cycleVars, callVars, fsVars, zipVars>>

NextEnsure ==
    \/ Mount
    \/ EnsureDir
    \/ EnsureFile
    \/ ProbeSettled
    \/ MkdirSettled
    \/ MkdirStatSettled
    \/ WriteFileSettled

SpecEnsure == Init /\ [][NextEnsure]_vars

---------------------------------------------------------------------------
(* one call of zipArrays(...arrays) or of zipArraysMapperFactory(map_fn)(...arrays),
   src/src/funcdefs.ts, statement by statement *)

ZipElements == {"a", "b"}
ZipArrays == UNION {[1..n -> ZipElements] : n \in 0..MaxLen}
ZipArguments == UNION {[1..n -> ZipArrays] : n \in 0..MaxArrays}

\* the call: output = [], min_len = math_min(...arrays.map((arr) => (arr.length))), i = 0
ZipCall ==
    /\ zipPc = "idle"
    /\ \E arrays \in ZipArguments, mapped \in BOOLEAN :
         /\ zipArgs' = arrays
         /\ zipMapped' = mapped
         /\ zipMinLen' = math_min(Lengths(arrays))
    /\ zipI' = 0
    /\ zipOutput' = <<>>
    /\ zipPc' = "loop"
    /\ UNCHANGED <<metaEnabled, metaImports, liveBlobUrls, cycleVars, callVars, fsVars,
                   zipTurn, ensureVars>>

\* one iteration of for (let i = 0; i < min_len; i++) { output.push(...) }
ZipLoop ==
    /\ zipPc = "loop"
    /\ LessThan(zipI, zipMinLen)
    /\ IF zipI < MaxIterations
       THEN /\ zipOutput' = Append(zipOutput,
                                   IF zipMapped THEN map_fn(TupleAt(zipArgs, zipI), zipI)
                                   ELSE TupleAt(zipArgs, zipI))
            /\ zipI' = zipI + 1
            /\ UNCHANGED zipTurn
       ELSE /\ zipTurn' = 1 - zipTurn
            /\ UNCHANGED <<zipOutput, zipI, ensureVars>>
    /\ UNCHANGED <<metaEnabled, metaImports, liveBlobUrls, cycleVars, callVars, fsVars,
                   zipPc, zipArgs, zipMapped, zipMinLen, ensureVars>>

\* the condition of the loop is false: return output
ZipReturn ==
    /\ zipPc = "loop"
    /\ ~LessThan(zipI, zipMinLen)
    /\ zipPc' = "returned"
    /\ UNCHANGED <<metaEnabled, metaImports, liveBlobUrls, cycleVars, callVars, fsVars,
                   zipArgs, zipMapped, zipMinLen, zipI, zipOutput, zipTurn, ensureVars>>

NextZip == ZipCall \/ ZipLoop \/ ZipReturn

\* a call that has started runs on: nothing suspends a synchronous loop
SpecZip == Init /\ [][NextZip]_vars /\ WF_vars(NextZip)

---------------------------------------------------------------------------
(* the claims *)

\* the bundler kept the wrapper: the script handed to unparseFromJs is the wrapped
\* script itself or what the bundler printed for it, nothing dropped
Faithful == opts.mode \in {"identity", "esbuild"} /\ opts.tamper = "none"

\* the key pushes of a script in textual order, each with the text between the
\* quotes of the import call that follows it
RECURSIVE PairsOf(_, _)
PairsOf(s, i) ==
    IF i > Len(s) THEN <<>>
    ELSE IF s[i] = "importKeys.push("
    THEN (LET k == StringBody(s, i + 2, <<>>)
              a == IndexFrom(s, "import(", k.next)
              p == StringBody(s, a + 2, <<>>)
          IN <<[key |-> k.value, path |-> SubSeq(s, a + 2, p.next - 2)]>>
             \o PairsOf(s, p.next))
    ELSE PairsOf(s, i + 1)

\* C1: round-trip law: parseToJs followed by unparseFromJs on the unmodified output
\* resolves with the original content, for every content
C1_RoundTrip ==
    (pc = "done" /\ opts.mode = "identity") => (outcome = "resolved" /\ result = raw)

\* C2: key/path correlation: when the bundler keeps the pairs in order and rewrites
\* the path literals, the dependency set handed to insertDeps has, at every position
\* i, the i-th key extractDeps returned and the path text of the import that
\* followed the push of that key
C2_KeyPathCorrelation ==
    (pc = "done" /\ Faithful /\ handed # <<>>) =>
        LET pairs == PairsOf(bundled, 1)
            h == handed[1]
        IN /\ Len(pairs) = Len(deps.importKeys)
           /\ Len(h.importKeys) = Len(pairs)
           /\ Len(h.importPaths) = Len(pairs)
           /\ \A i \in 1..Len(pairs) :
                /\ h.importKeys[i] = deps.importKeys[i]
                /\ h.importKeys[i] = pairs[i].key
                /\ h.importPaths[i] = pairs[i].path

C2_Witness ==
    /\ pc = "done" /\ opts.mode = "esbuild" /\ opts.tamper = "none"
    /\ handed # <<>>
    /\ deps.importPaths = << <<"p">>, <<"q">> >>
    /\ handed[1].importPaths = << <<"x">>, <<"y">> >>
    /\ handed[1].importKeys = deps.importKeys

\* C3: integrity detection (count): when the number of import statements recovered
\* from the marked region differs from the number of evaluated keys, unparseFromJs
\* rejects with the count error and hands nothing to insertDeps
C3_CountIntegrity ==
    (pc = "done" /\ evaluated.ok /\ Len(recovered) # Len(evaluated.importKeys)) =>
        (outcome = "count_mismatch" /\ handed = <<>> /\ result = <<>>)

C3_Witness ==
    /\ pc = "done" /\ opts.tamper = "drop_import"
    /\ evaluated.ok
    /\ Len(recovered) + 1 = Len(evaluated.importKeys)
    /\ outcome = "count_mismatch"

\* the evaluated keys are, position by position, the keys of the metadata entries
KeysMatchMeta ==
    /\ Len(evaluated.importKeys) = Len(metaImports)
    /\ \A i \in 1..Len(metaImports) :
         json_stringify(evaluated.importKeys[i]) = json_stringify(metaImports[i].key)

\* C4: integrity detection (key identity): with metadata enabled, unparseFromJs
\* rejects when the number of evaluated keys differs from the number of metadata
\* entries or when at some position the serialized key differs from the serialized
\* key of the entry, and passes the check only when every position matches
C4_KeyIdentity ==
    (pc = "done" /\ metaEnabled /\ evaluated.ok) =>
        /\ ~KeysMatchMeta => (outcome \in {"count_mismatch", "key_mismatch"} /\ handed = <<>>)
        /\ Len(evaluated.importKeys) # Len(metaImports) => outcome = "count_mismatch"
        /\ outcome = "resolved" => KeysMatchMeta
        /\ (KeysMatchMeta /\ Len(recovered) = Len(evaluated.importKeys))
              => outcome = "resolved"

C4_Witness ==
    /\ pc = "done" /\ metaEnabled /\ evaluated.ok
    /\ outcome = "key_mismatch"
    /\ Len(evaluated.importKeys) = 2 /\ Len(metaImports) = 2
    /\ evaluated.importKeys[1] = metaImports[1].key
    /\ evaluated.importKeys[2] # metaImports[2].key

\* the content is made of ordinary characters, dollar signs, backticks, closing
\* script tags and src references: no backslash and no carriage return
OnlyEscapedSpecials(content) ==
    \A i \in 1..Len(content) : content[i] \notin {"\\", "\r"}

C6_ExportEvaluatesToContent ==
    (pc = "done" /\ opts.mode = "identity") =>
        (evaluated.ok /\ evaluated.content = deps.content)

\* C7: marker robustness: whether a line break, semicolons or commas follow the begin
\* marker, unparseFromJs ends the same way with the same result, and the separators
\* after the begin marker do not reach the residual script
C7_MarkerRobustness ==
    (pc = "done" /\ opts.mode = "esbuild" /\ opts.tamper = "none") =>
        LET before == [i \in 1..Len(metaImports) |-> [metaImports[i] EXCEPT !.out = <<>>]]
            v == unparseFromJs(Bundler(js, [opts EXCEPT !.sep = <<"\n">>]),
                               before, metaEnabled)
        IN /\ outcome = v.outcome
           /\ result = v.result
           /\ handed = v.handed
           /\ metaImports = v.metaImports
           /\ OnlyEscapedSpecials(raw) => outcome = "resolved"
           /\ \A i \in 1..Len(residual) :
                residual[i] \notin {",", ";", imports_beginning_marker}

C7_Witness ==
    /\ pc = "done" /\ opts.mode = "esbuild" /\ opts.tamper = "none"
    /\ opts.sep = <<",", ",">>
    /\ Len(deps.importKeys) = 2
    /\ outcome = "resolved"
    /\ \A i \in 1..Len(residual) : residual[i] # ","

\* C8: zero-dependency case: with no dependencies the wrapped script still has the
\* declaration and both markers with only white space between them, and
\* unparseFromJs recovers no key and no path, raises no integrity error and returns
\* the original content
C8_ZeroDependencies ==
    (pc = "done" /\ opts.mode = "identity" /\ deps.importKeys = <<>>) =>
        /\ SubSeq(js, 1, 8) = <<"\n", import_keys_declaration, "\n",
                                imports_beginning_marker, "\n", "\n",
                                imports_ending_marker, "\n">>
        /\ evaluated.ok /\ evaluated.importKeys = <<>>
        /\ recovered = <<>>
        /\ outcome = "resolved"
        /\ result = raw

\* C9: metadata accuracy: with metadata enabled, after one parseToJs and one
\* successful unparseFromJs there is one entry per dependency, and entry i has the
\* i-th extracted key, the i-th path given at wrap time as in, and the i-th
\* recovered path as out
C9_MetadataAccuracy ==
    (pc = "done" /\ metaEnabled /\ outcome = "resolved") =>
        /\ Len(metaImports) = Len(deps.importKeys)
        /\ Len(recovered) = Len(metaImports)
        /\ \A i \in 1..Len(metaImports) :
             /\ metaImports[i].key = deps.importKeys[i]
             /\ metaImports[i].in = deps.importPaths[i]
             /\ metaImports[i].out = recovered[i]

C9_Witness ==
    /\ pc = "done" /\ metaEnabled /\ outcome = "resolved"
    /\ opts.mode = "esbuild"
    /\ Len(metaImports) = 2
    /\ metaImports[1].in = <<"p">> /\ metaImports[1].out = <<"x">>
    /\ metaImports[2].in = <<"q">> /\ metaImports[2].out = <<"y">>

\* the words that begin the statements of the wrapper
IsStatementWord(a) ==
    a \in {import_keys_declaration, imports_beginning_marker, "importKeys.push(",
           "await", imports_ending_marker, content_export_head}

\* the index of the n-th occurrence of atom a in s from index i on; 0 when there is none
RECURSIVE NthIndex(_, _, _, _)
NthIndex(s, a, n, i) ==
    IF i > Len(s) THEN 0
    ELSE IF s[i] = a THEN (IF n = 1 THEN i ELSE NthIndex(s, a, n - 1, i + 1))
    ELSE NthIndex(s, a, n, i + 1)

\* C10: wrapped-script structure: parseToJs returns, in this order, the declaration
\* of importKeys, the begin marker, for each dependency in order the push of its
\* JSON key directly followed by the import of its JSON path, the end marker and
\* the content export; no import is outside the markers
C10_WrappedStructure ==
    (pc # "constructed") =>
        LET n == Len(deps.importKeys)
            export == IndexFrom(js, content_export_head, 1)
        IN /\ Len(deps.importPaths) = n
           /\ SelectSeq(js, IsStatementWord)
                = <<import_keys_declaration, imports_beginning_marker>>
                  \o Join([i \in 1..n |-> <<"importKeys.push(", "await">>])
                  \o <<imports_ending_marker, content_export_head>>
           /\ \A i \in 1..n :
                OccursAt(js,
                         <<"importKeys.push(">> \o json_stringify(deps.importKeys[i])
                         \o <<")", "\n", "await", " ", "import(">>
                         \o json_stringify(deps.importPaths[i]) \o <<")">>,
                         NthIndex(js, "importKeys.push(", i, 1))
           /\ export # 0
           /\ SubSeq(js, export, Len(js)) = contentExportJs(deps.content)

C10_Witness ==
    /\ pc = "wrapped"
    /\ Len(deps.importKeys) = 2
    /\ deps.importPaths = << <<"p">>, <<"q">> >>

\* C11: metadata at wrap time depends on the flag: with config.meta enabled
\* parseToJs appends one entry per key, in order, with in the original path and out
\* empty; with config.meta disabled parseToJs leaves meta.imports as it was
C11_MetaFlagAtWrap ==
    (pc = "wrapped") =>
        IF metaEnabled
        THEN /\ Len(metaImports) = Len(deps.importKeys)
             /\ \A i \in 1..Len(metaImports) :
                  metaImports[i] = [key |-> deps.importKeys[i],
                                    in |-> deps.importPaths[i], out |-> <<>>]
        ELSE metaImports = <<>>

\* C14: blob release: every object URL unparseFromJs creates for the dynamic import
\* is revoked when the evaluation is over, on the success path and on the error
\* paths, so none is live after the call
C14_BlobRelease ==
    (pc = "done") => liveBlobUrls = {}

\* C15: integrity violations end the call before injection: insertDeps is invoked at
\* most once, only after the count check and, with metadata enabled, every key
\* check passed; on an integrity violation nothing is handed to insertDeps and the
\* call gives no result
C15_NoInjectionAfterViolation ==
    /\ Len(handed) <= 1
    /\ handed # <<>> =>
         /\ pc = "done" /\ outcome = "resolved" /\ evaluated.ok
         /\ Len(recovered) = Len(evaluated.importKeys)
         /\ metaEnabled => KeysMatchMeta
    /\ (pc = "done" /\ evaluated.ok
          /\ (Len(recovered) # Len(evaluated.importKeys) \/ (metaEnabled /\ ~KeysMatchMeta)))
         => /\ outcome \in {"count_mismatch", "key_mismatch"}
            /\ handed = <<>>
            /\ result = <<>>

C15_Witness ==
    /\ pc = "done" /\ metaEnabled /\ evaluated.ok
    /\ Len(recovered) = Len(evaluated.importKeys)
    /\ Len(metaImports) = Len(evaluated.importKeys)
    /\ ~KeysMatchMeta
    /\ outcome = "key_mismatch"
    /\ handed = <<>>

\* the number of (key, path) pairs of a dependency set
PairCount(d) == Min(Len(d.importKeys), Len(d.importPaths))

\* the number of pairs of the first n calls that returned
RECURSIVE PairsCompleted(_)
PairsCompleted(n) ==
    IF n = 0 THEN 0 ELSE PairsCompleted(n - 1) + PairCount(calls[completed[n]].deps)

\* call c was invoked after the whole cycle of call f had resolved, f having a dependency
FurtherCycle(c, f) ==
    /\ c # f
    /\ metaEnabled
    /\ calls[c].pc = "unparsed"
    /\ calls[c].after = {f}
    /\ calls[f].outcome = "resolved"
    /\ PairCount(calls[f].deps) >= 1

\* C12, as stated: one unparseFromJs drains the metadata of its parseToJs, and after
\* a completed cycle a further cycle on the same instance passes the checks
C12_DrainByOneUnwrap ==
    /\ (\A c \in CallIds : calls[c].pc \in {"idle", "unparsed"}) => metaImports = <<>>
    /\ \A c, f \in CallIds : FurtherCycle(c, f) => calls[c].outcome = "resolved"

\* C12, amended: meta.imports is never drained: it holds the entries of every call
\* that returned, and after a completed cycle with a dependency a further cycle on
\* the same instance (metadata enabled) is rejected by the count check
C12_NoDrain ==
    /\ Len(metaImports) = PairsCompleted(Len(completed))
    /\ \A c, f \in CallIds :
         FurtherCycle(c, f) =>
            /\ calls[c].outcome = "count_mismatch"
            /\ calls[c].handed = <<>>
            /\ calls[c].result = <<>>

C12_Witness ==
    /\ FurtherCycle(2, 1)
    /\ calls[1].deps.importPaths = << <<"p">> >>
    /\ calls[2].deps.importPaths = << <<"p">> >>
    /\ calls[2].deps.importKeys = << <<"c2u1">> >>
    /\ calls[2].outcome = "count_mismatch"
    /\ Len(metaImports) = 2

\* the keys and in-paths of the entries parseToJs pushes for a dependency set
EntryHeads(d) ==
    [i \in 1..PairCount(d) |-> [key |-> d.importKeys[i], in |-> d.importPaths[i]]]

\* C13: non-reentrancy race: with two parseToJs calls in flight on one instance the
\* entries land in meta.imports in the order in which the calls complete, not in
\* the order of invocation; the call started first can have its entries after those
\* of the call started second, and then unparseFromJs fails the metadata checks for
\* either output
C13_ReentrancyRace ==
    /\ [i \in 1..Len(metaImports) |-> [key |-> metaImports[i].key, in |-> metaImports[i].in]]
         = Join([n \in 1..Len(completed) |-> EntryHeads(calls[completed[n]].deps)])
    /\ (/\ metaEnabled
        /\ Len(started) = 2 /\ Len(completed) = 2
        /\ completed[1] = started[2]
        /\ \A c \in CallIds : PairCount(calls[c].deps) >= 1)
         => \A c \in CallIds :
              /\ unparseFromJs(calls[c].js, metaImports, metaEnabled).outcome
                    \in {"count_mismatch", "key_mismatch"}
              /\ (calls[c].pc = "unparsed" /\ calls[c].saw = CallIds)
                    => (calls[c].outcome \in {"count_mismatch", "key_mismatch"}
                        /\ calls[c].handed = <<>>)

C13_Witness ==
    /\ metaEnabled
    /\ started = <<1, 2>> /\ completed = <<2, 1>>
    /\ calls[1].after = {} /\ calls[2].after = {}
    /\ \A c \in CallIds : PairCount(calls[c].deps) = 1
    /\ Len(metaImports) = 2
    /\ metaImports[1].key = calls[2].deps.importKeys[1]
    /\ metaImports[2].key = calls[1].deps.importKeys[1]
    /\ \A c \in CallIds :
         /\ calls[c].pc = "unparsed" /\ calls[c].saw = CallIds
         /\ calls[c].outcome = "count_mismatch"

\* C16: no re-validation of the dependency set: when extractDeps returns importKeys
\* and importPaths of different lengths, parseToJs returns normally, emits only as
\* many (push, import) pairs as the shorter array has, records as many entries, and
\* drops the surplus element
C16_NoRevalidation ==
    \A c \in CallIds :
        (/\ calls[c].pc \in {"returned", "unparsed"}
         /\ Len(calls[c].deps.importKeys) # Len(calls[c].deps.importPaths))
          => LET d == calls[c].deps
                 n == PairCount(d)
                 pairs == PairsOf(calls[c].js, 1)
                 keys == {d.importKeys[i] : i \in 1..Len(d.importKeys)}
             IN /\ Len(pairs) = n
                /\ \A i \in 1..n : /\ pairs[i].key = d.importKeys[i]
                                   /\ pairs[i].path = d.importPaths[i]
                /\ Cardinality({i \in 1..Len(metaImports) : metaImports[i].key \in keys}) = n
                /\ \A i \in 1..Len(metaImports) :
                     metaImports[i].key \in keys =>
                        \E k \in 1..n : /\ metaImports[i].key = d.importKeys[k]
                                        /\ metaImports[i].in = d.importPaths[k]

C16_Witness ==
    /\ calls[1].pc = "returned"
    /\ Len(calls[1].deps.importKeys) = 2
    /\ Len(calls[1].deps.importPaths) = 1
    /\ Len(PairsOf(calls[1].js, 1)) = 1
    /\ Len(metaImports) = 1

\* the document s from index i on, with the path of the n-th src attribute and of
\* those after it replaced by paths[n], paths[n + 1], ... and nothing else changed
RECURSIVE WithPaths(_, _, _, _)
WithPaths(s, i, paths, n) ==
    IF i > Len(s) THEN <<>>
    ELSE LET m == HtmlSrcMatch(s, i)
         IN IF m.ok
            THEN SubSeq(s, i, m.last - Len(m.link) - 1) \o paths[n] \o <<"\"">>
                 \o WithPaths(s, m.last + 1, paths, n + 1)
            ELSE <<s[i]>> \o WithPaths(s, i + 1, paths, n)

\* C17: policy round-trip law of the example HtmlLoader: insertDeps applied to
\* extractDeps(content) with the paths replaced position by position gives content
\* with the path of each src attribute replaced by its transformed path and nothing
\* else changed; with the original paths the result is content
C17_PolicyRoundTrip ==
    (pc = "inserted") =>
        /\ result = WithPaths(raw, 1, handed[1].importPaths, 1)
        /\ handed[1].importPaths = deps.importPaths => result = raw

\* the positions in fsOps at which one of the functions ops was invoked for file i
OpsFor(i, ops) == {k \in 1..Len(fsOps) : fsOps[k].file = i /\ fsOps[k].op \in ops}

\* the messages of a call at the level "verbose": the top-level one and one per file
VerboseMessages ==
    <<TopLevelMessage>>
    \o [i \in 1..Len(virtual_files) |->
          FileMessage(resolvePath(Defaulted(config.dir, "./"), virtual_files[i].path))]

\* C18: dry run: with dryrun set createFiles and writeOutputFiles invoke neither
\* ensureFile nor writeTextFile nor writeFile for any file, and log what the level
\* asks for; with dryrun unset every file is ensured once and, its ensureFile
\* having resolved, written once, with writeTextFile for a string and writeFile
\* otherwise
C18_DryRun ==
    (fsPc # "idle") =>
        IF config.dryrun = "true"
        THEN /\ fsOps = <<>>
             /\ fsPc = "resolved"
             /\ config.log = "basic" => console = <<TopLevelMessage>>
             /\ config.log = "verbose" => console = VerboseMessages
        ELSE \A i \in 1..Len(virtual_files) :
               LET ensured == OpsFor(i, {"ensureFile"})
                   written == OpsFor(i, {"writeTextFile", "writeFile"})
               IN /\ Cardinality(ensured) = 1
                  /\ Cardinality(written) <= 1
                  /\ \A e \in ensured, w \in written : e < w
                  /\ \A w \in written : fsOps[w].op = WriteOp(virtual_files[i].content)
                  /\ (filePc[i] \in {"write", "done"} \/ fsPc = "resolved")
                        => Cardinality(written) = 1

C18_Witness ==
    /\ fsPc = "resolved"
    /\ config.dryrun = "true" /\ config.log = "verbose"
    /\ Len(virtual_files) = 2
    /\ fsOps = <<>>
    /\ Len(console) = 3

\* C19: logging levels of createFiles: with log false or "none" nothing is logged,
\* with log true or "basic" or log omitted the one top-level message, with log
\* "verbose" the top-level message and one message per file
C19_LoggingLevels ==
    (fsPc # "idle") =>
        /\ config.log \in {"false", "none"} => console = <<>>
        /\ config.log \in {"true", "basic", "undefined"} => console = <<TopLevelMessage>>
        /\ config.log = "verbose" => console = VerboseMessages

\* C20: output-file adapter: writeOutputFiles gives createFiles one tuple per record,
\* in the same order, with the path of the record and as content its contents when
\* present, otherwise its text when present, otherwise the empty string, and the
\* configuration it was given
C20_OutputFileAdapter ==
    (fsCall.fn = "writeOutputFiles") =>
        /\ Len(virtual_files) = Len(fsCall.files)
        /\ \A i \in 1..Len(virtual_files) :
             /\ virtual_files[i].path = fsCall.files[i].path
             /\ virtual_files[i].content =
                   IF fsCall.files[i].contents # UndefinedValue THEN fsCall.files[i].contents
                   ELSE IF fsCall.files[i].text # UndefinedValue THEN fsCall.files[i].text
                   ELSE StringValue(<<>>)
        /\ config = fsCall.config

C20_Witness ==
    /\ fsCall.fn = "writeOutputFiles"
    /\ Len(fsCall.files) = 2
    /\ fsCall.files[1].text = StringValue(<<"t">>)
    /\ fsCall.files[1].contents = BytesValue(<<"b">>)
    /\ fsCall.files[2].text = UndefinedValue
    /\ fsCall.files[2].contents = UndefinedValue
    /\ virtual_files[1].content = BytesValue(<<"b">>)
    /\ virtual_files[2].content = StringValue(<<>>)
    /\ config.log = "verbose"

\* the text between the quotes of every import call of a script, in textual order
RECURSIVE ImportTexts(_, _)
ImportTexts(s, i) ==
    IF i > Len(s) THEN <<>>
    ELSE IF s[i] = "import(" /\ i + 1 <= Len(s) /\ s[i + 1] = "\""
    THEN (LET p == StringBody(s, i + 2, <<>>)
          IN IF p.ok THEN <<SubSeq(s, i + 2, p.next - 2)>> \o ImportTexts(s, p.next)
             ELSE ImportTexts(s, i + 1))
    ELSE ImportTexts(s, i + 1)

\* the key literals of the key pushes of a script, in textual order
RECURSIVE PushKeys(_, _)
PushKeys(s, i) ==
    IF i > Len(s) THEN <<>>
    ELSE IF s[i] = "importKeys.push(" /\ i + 1 <= Len(s) /\ s[i + 1] = "\""
    THEN (LET k == StringBody(s, i + 2, <<>>)
          IN IF k.ok THEN <<SubSeq(s, i + 2, k.next - 2)>> \o PushKeys(s, k.next)
             ELSE PushKeys(s, i + 1))
    ELSE PushKeys(s, i + 1)

\* C24: the residual script of unparseFromJs: the recovered list holds the paths of
\* the import calls of the marked region in their textual order; the script that is
\* evaluated has no begin marker, no end marker and no await-import call, and it
\* still has every key push of the region, in the original relative order
C24_ResidualScript ==
    pc = "done" =>
        /\ recovered = ImportTexts(bundled, 1)
        /\ \A i \in 1..Len(residual) :
             residual[i] \notin {imports_beginning_marker, imports_ending_marker,
                                 "await", "import("}
        /\ PushKeys(residual, 1) = PushKeys(bundled, 1)

C24_Witness ==
    /\ pc = "done" /\ opts.mode = "esbuild" /\ opts.tamper = "none"
    /\ Len(ImportTexts(bundled, 1)) = 2
    /\ recovered = << <<"x">>, <<"y">> >>
    /\ Len(PushKeys(residual, 1)) = 2
    /\ PushKeys(residual, 1)[1] # PushKeys(residual, 1)[2]
    /\ \E i \in 1..Len(bundled) : bundled[i] = imports_ending_marker

\* C29: the state a failed unwrap leaves: after the count error no metadata entry
\* has been modified; after the key error at position i the entries below i carry
\* their recovered paths as out and the entries at i and above are as they were
C29_FailedUnwrapState ==
    (pc = "done" /\ metaEnabled) =>
        LET before == PushMetaEntries(<<>>, deps)
        IN /\ outcome = "count_mismatch" => metaImports = before
           /\ outcome = "key_mismatch" =>
                /\ Len(metaImports) = Len(before)
                /\ \E i \in 1..Len(before) :
                     /\ evaluated.importKeys[i] # before[i].key
                     /\ \A k \in 1..(i - 1) :
                          /\ evaluated.importKeys[k] = before[k].key
                          /\ metaImports[k] = [before[k] EXCEPT !.out = recovered[k]]
                     /\ \A k \in i..Len(before) : metaImports[k] = before[k]

C29_Witness ==
    /\ pc = "done" /\ metaEnabled /\ outcome = "key_mismatch"
    /\ Len(metaImports) = 2
    /\ metaImports[1].out = <<"p">>
    /\ metaImports[2].out = <<>>
    /\ evaluated.importKeys[2] # metaImports[2].key

\* C25: the metadata is append-only and accumulates across the calls on one
\* instance: no step removes or reorders entries of meta.imports or changes the key
\* or the in of an existing entry; an existing entry changes only by unparseFromJs
\* setting its out; and after the parseToJs calls that have returned the list holds
\* the sum of their dependency counts
C25_MetaAppendOnly ==
    [][/\ Len(metaImports') >= Len(metaImports)
       /\ \A i \in 1..Len(metaImports) :
            /\ metaImports'[i].key = metaImports[i].key
            /\ metaImports'[i].in = metaImports[i].in
            /\ metaImports'[i].out # metaImports[i].out =>
                 \E c \in CallIds : /\ calls[c].pc = "returned"
                                    /\ calls'[c].pc = "unparsed"
                                    /\ Len(metaImports') = Len(metaImports)
       /\ Len(metaImports') = PairsCompleted(Len(completed))']_vars

C25_Witness ==
    /\ Len(completed) = 2
    /\ \A c \in CallIds : PairCount(calls[c].deps) = 1
    /\ Len(metaImports) = 2
    /\ metaImports[1].out = <<"p">>
    /\ metaImports[2].out = <<>>
    /\ metaImports[1].key # metaImports[2].key

\* the non-overlapping spans of a script from index i on, each from a begin marker
\* to the next end marker, left to right: [begin, end]
RECURSIVE Spans(_, _)
Spans(s, i) ==
    LET b == IndexFrom(s, imports_beginning_marker, i)
        e == IF b = 0 THEN 0 ELSE IndexFrom(s, imports_ending_marker, b + 1)
    IN IF b = 0 \/ e = 0 THEN <<>>
       ELSE <<[begin |-> b, end |-> e]>> \o Spans(s, e + 1)

\* what is left of the spans sp of s from index i on: the text outside the spans as
\* it is, and of each span its inside without the separators after the begin marker
\* and without its import calls, whose paths go to the list
RECURSIVE OutsideAndInside(_, _, _, _)
OutsideAndInside(s, i, sp, acc) ==
    IF sp = <<>> THEN [acc EXCEPT !.out = @ \o SubSeq(s, i, Len(s))]
    ELSE LET b == Head(sp).begin
             e == Head(sp).end
             first == SkipWhile(s, {",", ";"}, b + 1)
         IN OutsideAndInside(s, e + 1, Tail(sp),
                StripImports(SubSeq(s, first, e - 1), 1,
                             [acc EXCEPT !.out = @ \o SubSeq(s, i, b - 1)]))

PlainScript ==
    /\ \A i \in 1..Len(raw) :
         raw[i] \notin {imports_beginning_marker, imports_ending_marker, "await"}
    /\ \A i \in 1..Len(deps.importKeys) :
         /\ deps.importKeys[i] # <<imports_ending_marker>>
         /\ deps.importPaths[i] # <<imports_ending_marker>>

\* the first index q >= i with t[q] a double quote that optional white space and a
\* closing parenthesis follow; 0 when there is none
RECURSIVE ClosingQuote(_, _)
ClosingQuote(t, i) ==
    IF i > Len(t) THEN 0
    ELSE IF /\ t[i] = "\""
            /\ \E j \in (i + 1)..Len(t) :
                 t[j] = ")" /\ \A k \in (i + 1)..(j - 1) : t[k] \in WhiteSpace
    THEN i
    ELSE ClosingQuote(t, i + 1)

\* the text of the import call of a path, from after its opening quote up to the
\* closing quote in the sense above
VerbatimPath(path) ==
    LET t == Tail(json_stringify(path)) \o <<")">>
    IN SubSeq(t, 1, ClosingQuote(t, 1) - 1)

ShortestLength == 
    CHOOSE n \in 0..MaxLen + 1 :
        /\ \A k \in 1..Len(zipArgs) : n <= Len(zipArgs[k])
        /\ \E k \in 1..Len(zipArgs) : n = Len(zipArgs[k])

\* the call has returned the positional pairing of its arrays
ZipResult ==
    /\ Len(zipOutput) = ShortestLength
    /\ \A i \in 1..Len(zipOutput) :
         LET tuple == [k \in 1..Len(zipArgs) |-> zipArgs[k][i]]
         IN zipOutput[i] = IF zipMapped THEN [tuple |-> tuple, index |-> i - 1] ELSE tuple

\* C26: zipArrays and the mappers of zipArraysMapperFactory pair sequences by
\* position: for one or more arrays the result has the length of the shortest array
\* and its i-th element is the tuple of the i-th elements (for a mapper, map_fn of
\* that tuple and the index i); the arrays given are not modified; and the call
\* terminates for every finite input, a call with no arrays at all included
C26_ZipPairsAndTerminates ==
    /\ []((zipPc = "returned" /\ Len(zipArgs) >= 1) => ZipResult)
    /\ [][zipPc # "idle" => zipArgs' = zipArgs]_vars
    /\ (zipPc = "loop") ~> (zipPc = "returned")

\* C30: createFiles under concurrency: the callbacks of the files run concurrently;
\* within each, ensureFile has completed before the write of that file starts;
\* createFiles resolves only after every callback has completed; when a callback
\* fails createFiles rejects, and the other callbacks are neither cancelled nor
\* rolled back: each goes on from where it is and what it has written stays; two
\* entries with the same destination can have their writes in either order
C30_CreateFilesConcurrency ==
    (fsPc # "idle" /\ config.dryrun # "true") =>
        /\ \A i \in 1..Len(virtual_files) :
             LET written == OpsFor(i, {"writeTextFile", "writeFile"})
             IN /\ filePc[i] = "ensureFile" => written = {}
                /\ \A e \in OpsFor(i, {"ensureFile"}), w \in written : e < w
                /\ filePc[i] = "ensureFile" => ENABLED EnsureFileSettled(i)
                /\ filePc[i] = "write" => (written # {} /\ ENABLED WriteSettled(i))
                /\ filePc[i] = "done" => written # {}
        /\ fsPc = "resolved" <=> \A i \in 1..Len(virtual_files) : filePc[i] = "done"
        /\ fsPc = "rejected" <=> \E i \in 1..Len(virtual_files) : filePc[i] = "rejected"

C30_Witness ==
    /\ fsPc = "rejected"
    /\ Len(virtual_files) = 2
    /\ virtual_files[1].path = virtual_files[2].path
    /\ filePc = <<"rejected", "write">>
    /\ Len(fsOps) = 4
    /\ fsOps[3].file = 2 /\ fsOps[3].op = "writeTextFile"
    /\ fsOps[4].file = 1 /\ fsOps[4].op = "writeTextFile"
    /\ fsOps[3].path = fsOps[4].path
    /\ ENABLED WriteSettled(2)

\* the call in hand has settled on a runtime with a filesystem, and no filesystem
\* function it awaited failed for a reason of the environment
SettledWithoutFault ==
    /\ ensurePc \in {"resolved", "rejected"}
    /\ platform.runtime_enum \in SystemRuntimes
    /\ \A k \in 1..Len(ensureOps) : ~ensureOps[k].fault

\* C21: ensureDir is idempotent: on a path where a directory exists it completes
\* without error and leaves the filesystem as it is, and so does every repeated
\* call, a resolved call leaving a directory at the path; on a path where a file
\* exists it fails with an error
C21_EnsureDirIdempotent ==
    (ensureCall.fn = "ensureDir" /\ SettledWithoutFault) =>
        /\ diskBefore[ensureCall.path] = "dir" =>
             (ensurePc = "resolved" /\ disk = diskBefore)
        /\ IsFileEntry(diskBefore[ensureCall.path]) =>
             (ensurePc = "rejected" /\ ensureThrown # "none" /\ disk = diskBefore)
        /\ ensurePc = "resolved" => disk[ensureCall.path] = "dir"

C21_Witness ==
    /\ ensureCall = [fn |-> "ensureDir", path |-> "d/f"] /\ SettledWithoutFault
    /\ platform.runtime_enum = "NODE"
    /\ ensureHistory = <<[fn |-> "ensureDir", path |-> "d/f", pc |-> "resolved"]>>
    /\ ensurePc = "resolved"
    /\ diskBefore["d/f"] = "dir" /\ disk = diskBefore
    /\ Len(ensureOps) = 2 /\ ensureOps[1].error = "EEXIST"

\* the indices of the filesystem functions fn among those the call in hand awaited
EnsureOpsOf(fn) == {k \in 1..Len(ensureOps) : ensureOps[k].fn = fn}

\* C22: ensureFile: when a file exists at the path it does nothing: no directory is
\* created and the content is untouched; when nothing exists at the path it first
\* creates all missing directories above it and only then creates an empty file;
\* when something other than a file exists at the path it fails with an error
C22_EnsureFile ==
    (ensureCall.fn = "ensureFile" /\ SettledWithoutFault) =>
        LET p == ensureCall.path
        IN /\ IsFileEntry(diskBefore[p]) =>
                /\ ensurePc = "resolved"
                /\ disk = diskBefore
                /\ EnsureOpsOf("mkdir") = {} /\ EnsureOpsOf("writeFile") = {}
           /\ (diskBefore[p] = "none" /\ ~IsFileEntry(EntryAt(diskBefore, ParentOf(p)))) =>
                /\ ensurePc = "resolved"
                /\ disk[p] = "empty"
                /\ EntryAt(disk, ParentOf(p)) = "dir"
                /\ \A q \in EnsurePaths \ {p, ParentOf(p)} : disk[q] = diskBefore[q]
                /\ \E m \in EnsureOpsOf("mkdir"), w \in EnsureOpsOf("writeFile") : m < w
           /\ diskBefore[p] = "dir" => (ensurePc = "rejected" /\ ensureThrown # "none")

\* C23: error propagation of ensureDir and ensureFile: an error raised by a
\* filesystem function, other than the tolerated ones (the directory exists as a
\* directory; no file found by the probe), is rethrown to the caller as the same
\* error value, also when the error carries no code
C23_ErrorsRethrown ==
    (ensurePc = "rejected" /\ ensureRaised # "none") => ensureThrown = ensureRaised

====
